---------------------------- MODULE Spec2Model ----------------------------
(***************************************************************************)
(* Model of the telemetry codec of src/src/lib/data-response.ts: the       *)
(* generic value model, the envelope unwrapper, the value normalizer, the  *)
(* tensor (numpy) container decoder, the record decoders/encoders and the  *)
(* response merger.                                                        *)
(*                                                                         *)
(* JavaScript values are tagged tuples whose first component is the tag:   *)
(*   <<"undef">>  <<"null">>  <<"bool", b>>  <<"num", n>>  <<"str", s>>    *)
(*   <<"nan">> <<"inf">> <<"ninf">>          (the non-finite numbers)      *)
(*   <<"f32", bytes>> <<"f64", bytes>> <<"u32", bytes>>                    *)
(*        (a number that is no small integer, kept by its bit pattern)     *)
(*   <<"b64", digits>>                       (a non-empty base64 text, as  *)
(*        its 6-bit digits, 64 standing for the padding character)         *)
(*   <<"typed", kind, elems>>                (a typed array; u8 = bytes)   *)
(*   <<"arr", <<v1, ..., vn>> >>             (an Array)                    *)
(*   <<"obj", << <<k1, v1>>, ... >> >>       (an object, insertion order)  *)
(*   <<"throw", error>>                      (the call raised error)       *)
(***************************************************************************)
EXTENDS Integers, Sequences, FiniteSets, TLC

VARIABLES
    pc,          \* position of the caller within the operation it drives
    payload,     \* the input handed to the operation
    normalized,  \* normalize's output
    result,      \* what the operation returned (or <<"throw", e>>)
    target,      \* the DataResponse being built by the merger
    merged,      \* the entries merged into target so far, in arrival order
    recordName,  \* the record kind handed to encodeRecord
    envelope,    \* the named record envelope handed to decodeRecord
    decoderPatched,  \* the module's guard flag of the decoder patch
    decodeBinary,    \* Decoder.prototype.decodeBinary: the number of
                     \* patchedDecodeBinary wrappers around the original
    stateIsMapKey,   \* whether the decoder is reading a key of a map
    sockets,     \* the sockets io() has returned to the DataService, in the
                 \* order of their creation: the connection state of each
    socket,      \* DataService.socket: an index into sockets, 0 for null
    timer,       \* DataService.timer: the id of an interval, 0 for null
    running,     \* the ids of the intervals set and not cleared
    command,     \* DataService.command
    emitted,     \* the last event the DataService emitted
    sent,        \* the socket the last polled command was written to
    from,        \* the socket whose handler ran last
    media        \* the state of one run of the effect of useMediaSourceStream:
                 \* its locals, the media source, the source buffer, the stream

codec ==
    <<pc, payload, normalized, result, target, merged, recordName, envelope>>

patch == <<decoderPatched, decodeBinary, stateIsMapKey>>

\* the state outside the calls of the codec
service == <<sockets, socket, timer, running, command, emitted, sent, from>>

outside == <<patch, service, media>>

vars == <<codec, outside>>

\* the module is loaded, and with it the decoder patched (data-response.ts:235)
PatchLoaded ==
    /\ decoderPatched = TRUE
    /\ decodeBinary = 1
    /\ stateIsMapKey = FALSE

\* no DataService has been constructed
NoService ==
    /\ sockets = <<>>
    /\ socket = 0
    /\ timer = 0
    /\ running = {}
    /\ command = <<"null">>
    /\ emitted = <<>>
    /\ sent = 0
    /\ from = 0

\* no video is mounted
NoMedia == media = <<>>

OutsideInit == PatchLoaded /\ NoService /\ NoMedia

---------------------------------------------------------------------------
(* Bounds of the model.                                                    *)

MaxDataLen == 6     \* longest raw byte payload of a tensor container
MaxDim == 3         \* largest dimension size in a tensor shape
MaxSeq == 3         \* longest sequence handed to the merger or the unwrapper

---------------------------------------------------------------------------
(* The value model.                                                        *)

Undef == <<"undef">>
Null == <<"null">>
NaN == <<"nan">>
Bool(b) == <<"bool", b>>
Num(n) == <<"num", n>>
Str(s) == <<"str", s>>
Typed(kind, elems) == <<"typed", kind, elems>>
Bytes(b) == Typed("u8", b)
Arr(s) == <<"arr", s>>
Obj(pairs) == <<"obj", pairs>>
Throw(e) == <<"throw", e>>

Tag(v) == v[1]
IsThrow(v) == Tag(v) = "throw"
IsNullish(v) == Tag(v) \in {"undef", "null"}
IsArray(v) == Tag(v) = "arr"
IsString(v) == Tag(v) \in {"str", "b64"}
IsNumber(v) == Tag(v) \in {"num", "nan", "inf", "ninf", "f32", "f64", "u32"}
IsObject(v) == Tag(v) = "obj"
Elems(v) == v[2]

\* typeof value === "object" && value !== null : arrays, typed arrays, objects
IsObjectLike(v) == Tag(v) \in {"arr", "typed", "obj"}

\* JavaScript truthiness (the ! operator and if (value))
Truthy(v) ==
    CASE Tag(v) \in {"undef", "null", "nan"} -> FALSE
      [] Tag(v) = "bool" -> v[2]
      [] Tag(v) = "num" -> v[2] # 0
      [] Tag(v) = "str" -> v[2] # ""
      [] OTHER -> TRUE          \* a b64 text is never empty

SeqMap(Op(_), s) == [i \in 1..Len(s) |-> Op(s[i])]

\* the first raised error among the values of s, or Undef when none raised
FirstThrow(s) ==
    IF \E i \in 1..Len(s) : IsThrow(s[i])
    THEN s[CHOOSE i \in 1..Len(s) :
              IsThrow(s[i]) /\ \A j \in 1..(i - 1) : ~IsThrow(s[j])]
    ELSE Undef

(* Objects: key in obj, obj[key], obj[key] = value (a new key is appended, *)
(* an existing key keeps its place).                                       *)
ObjPairs(o) == o[2]
ObjHas(o, k) == \E i \in 1..Len(ObjPairs(o)) : ObjPairs(o)[i][1] = k
ObjGet(o, k) ==
    IF ObjHas(o, k)
    THEN ObjPairs(o)[CHOOSE i \in 1..Len(ObjPairs(o)) : ObjPairs(o)[i][1] = k][2]
    ELSE Undef
ObjSet(o, k, v) ==
    IF ObjHas(o, k)
    THEN Obj([i \in 1..Len(ObjPairs(o)) |->
                 IF ObjPairs(o)[i][1] = k THEN <<k, v>> ELSE ObjPairs(o)[i]])
    ELSE Obj(Append(ObjPairs(o), <<k, v>>))
EmptyObj == Obj(<<>>)

\* "key" in value, for any object-like value (arrays and typed arrays have
\* index keys and length only, none of which the codec asks for)
HasKey(v, k) == IsObject(v) /\ ObjHas(v, k)
\* value.key, for any non-nullish value
GetKey(v, k) == IF IsObject(v) THEN ObjGet(v, k) ELSE Undef

---------------------------------------------------------------------------
(* Strings: toLowerCase and String(value) on the strings of the model.     *)

LowerTable ==
    [s \in {"<F4", "FLOAT32", "Int8", "UINT8", "Message", "MESSAGE", "GPS",
            "Camera", "Depth", "gpsUnit", "cameraUnit", "depthView",
            "gpsCamera", "TRUE", "True", "False"} |->
        CASE s = "<F4" -> "<f4"
          [] s = "FLOAT32" -> "float32"
          [] s = "Int8" -> "int8"
          [] s = "UINT8" -> "uint8"
          [] s \in {"Message", "MESSAGE"} -> "message"
          [] s = "GPS" -> "gps"
          [] s = "Camera" -> "camera"
          [] s = "Depth" -> "depth"
          [] s = "gpsUnit" -> "gpsunit"
          [] s = "cameraUnit" -> "cameraunit"
          [] s = "depthView" -> "depthview"
          [] s = "gpsCamera" -> "gpscamera"
          [] s \in {"TRUE", "True"} -> "true"
          [] s = "False" -> "false"]

ToLowerCase(s) == IF s \in DOMAIN LowerTable THEN LowerTable[s] ELSE s

\* text.trim() on the texts of the model that have blanks around them
Trim(s) ==
    CASE s = " true " -> "true"
      [] s = " False" -> "False"
      [] s = "0 " -> "0"
      [] OTHER -> s

\* String(value)
ToStr(v) ==
    CASE Tag(v) = "str" -> v[2]
      [] Tag(v) = "num" -> ToString(v[2])
      [] Tag(v) = "bool" -> IF v[2] THEN "true" ELSE "false"
      [] Tag(v) = "null" -> "null"
      [] Tag(v) = "undef" -> "undefined"
      [] Tag(v) = "nan" -> "NaN"
      [] Tag(v) = "inf" -> "Infinity"
      [] Tag(v) = "ninf" -> "-Infinity"
      [] Tag(v) = "obj" -> "[object Object]"
      [] OTHER -> "[value]"

---------------------------------------------------------------------------
(* Typed arrays: the element kinds of createTypedArray, the width of an    *)
(* element, and the little-endian decoding of one element.                 *)

DtypeKind(tag) ==
    CASE tag \in {"<f4", "float32"} -> "f32"
      [] tag \in {"<f8", "float64"} -> "f64"
      [] tag \in {"<i4", "int32"} -> "i32"
      [] tag \in {"<i2", "int16"} -> "i16"
      [] tag \in {"<i1", "|i1", "int8"} -> "i8"
      [] tag \in {"<u4", "uint32"} -> "u32"
      [] tag \in {"<u2", "uint16"} -> "u16"
      [] tag \in {"<u1", "|u1", "uint8"} -> "u8"
      [] OTHER -> "none"

ElemWidth(kind) ==
    CASE kind \in {"f32", "i32", "u32"} -> 4
      [] kind = "f64" -> 8
      [] kind \in {"i16", "u16"} -> 2
      [] OTHER -> 1

\* IEEE 754 binary32, little-endian: the value of a 4-byte chunk
F32Dec(c) ==
    LET sign == c[4] \div 128
        exp == (c[4] % 128) * 2 + (c[3] \div 128)
        man == (c[3] % 128) * 65536 + c[2] * 256 + c[1]
    IN  CASE exp = 255 /\ man # 0 -> NaN
          [] exp = 255 /\ man = 0 -> IF sign = 1 THEN <<"ninf">> ELSE <<"inf">>
          [] exp = 0 /\ man = 0 -> Num(0)
          [] exp \in 127..150 /\ man % (2 ^ (150 - exp)) = 0 ->
                LET mag == (8388608 + man) \div (2 ^ (150 - exp))
                IN  Num(IF sign = 1 THEN 0 - mag ELSE mag)
          [] OTHER -> <<"f32", c>>

\* IEEE 754 binary64, little-endian: the value of an 8-byte chunk
F64Dec(c) ==
    LET sign == c[8] \div 128
        exp == (c[8] % 128) * 16 + (c[7] \div 16)
        top == c[7] % 16
        low0 == \A i \in 1..6 : c[i] = 0
    IN  CASE exp = 2047 /\ ~(low0 /\ top = 0) -> NaN
          [] exp = 2047 /\ low0 /\ top = 0 ->
                IF sign = 1 THEN <<"ninf">> ELSE <<"inf">>
          [] exp = 0 /\ low0 /\ top = 0 -> Num(0)
          [] low0 /\ exp \in 1023..1027 /\ (16 + top) % (2 ^ (1027 - exp)) = 0 ->
                LET mag == (16 + top) \div (2 ^ (1027 - exp))
                IN  Num(IF sign = 1 THEN 0 - mag ELSE mag)
          [] low0 /\ exp \in 1028..1040 ->
                LET mag == (16 + top) * (2 ^ (exp - 1027))
                IN  Num(IF sign = 1 THEN 0 - mag ELSE mag)
          [] OTHER -> <<"f64", c>>

DecodeElem(kind, c) ==
    CASE kind = "u8" -> Num(c[1])
      [] kind = "i8" -> Num(IF c[1] >= 128 THEN c[1] - 256 ELSE c[1])
      [] kind = "u16" -> Num(c[1] + 256 * c[2])
      [] kind = "i16" ->
            Num(IF c[2] >= 128 THEN c[1] + 256 * c[2] - 65536
                ELSE c[1] + 256 * c[2])
      [] kind = "i32" ->
            Num(c[1] + 256 * c[2] + 65536 * c[3]
                + 16777216 * (IF c[4] >= 128 THEN c[4] - 256 ELSE c[4]))
      [] kind = "u32" ->
            IF c[4] >= 128 THEN <<"u32", c>>
            ELSE Num(c[1] + 256 * c[2] + 65536 * c[3] + 16777216 * c[4])
      [] kind = "f32" -> F32Dec(c)
      [] OTHER -> F64Dec(c)

\* new XxxArray(buffer) over the bytes b: the elements, in order
TypedElems(kind, b) ==
    LET w == ElemWidth(kind)
    IN  [i \in 1..(Len(b) \div w) |->
            DecodeElem(kind, SubSeq(b, (i - 1) * w + 1, i * w))]

\* ToUint8 of an array element (Uint8Array.from)
ToUint8(v) ==
    CASE Tag(v) = "num" -> v[2] % 256
      [] Tag(v) = "bool" -> IF v[2] THEN 1 ELSE 0
      [] OTHER -> 0

(* toUint8Array, data-response.ts:1145 *)
toUint8Array(data) ==
    CASE Tag(data) = "typed" /\ data[2] = "u8" -> data[3]
      [] Tag(data) = "arr" -> SeqMap(ToUint8, Elems(data))
      [] OTHER -> <<>>

\* createTypedArray whose default branch builds a Uint8Array
createTypedArrayDefaultU8(dtype, bytes) ==
    LET tagged == DtypeKind(ToLowerCase(dtype))
        kind == IF tagged = "none" THEN "u8" ELSE tagged
    IN  IF Len(bytes) % ElemWidth(kind) # 0 THEN Throw("RangeError")
        ELSE Typed(kind, TypedElems(kind, bytes))

(* createTypedArray, data-response.ts:1078.  new XxxArray(buffer) raises a  *)
(* RangeError when the byte length is no multiple of the element width.    *)
createTypedArray(dtype, bytes) ==
    LET kind == DtypeKind(ToLowerCase(dtype))
    IN  IF kind = "none" THEN Null
        ELSE IF Len(bytes) % ElemWidth(kind) # 0 THEN Throw("RangeError")
        ELSE Typed(kind, TypedElems(kind, bytes))

\* array.subarray(begin, end) for 0 <= begin, end: both clamped to the length
Subarray(elems, begin, end) ==
    LET n == Len(elems)
        b == IF begin > n THEN n ELSE begin
        e == IF end > n THEN n ELSE end
    IN  IF e > b THEN SubSeq(elems, b + 1, e) ELSE <<>>

\* the step of reshapeTypedArray taken as the next dimension only
ProductFirstOnly(s) == IF s = <<>> THEN 1 ELSE Head(s)

Product(s) ==
    LET RECURSIVE P(_)
        P(t) == IF t = <<>> THEN 1 ELSE Head(t) * P(Tail(t))
    IN  P(s)

(* reshapeTypedArray, data-response.ts:1117; shape is a sequence of        *)
(* non-negative integers, elems the typed array's elements.  An index past *)
(* the end of a typed array reads undefined.                               *)
RECURSIVE reshapeTypedArray(_, _, _)
reshapeTypedArray(elems, shape, offset) ==
    IF Len(shape) = 0
    THEN IF offset < Len(elems) THEN elems[offset + 1] ELSE Undef
    ELSE IF Len(shape) = 1
    THEN Arr(Subarray(elems, offset, offset + shape[1]))
    ELSE LET size == shape[1]
             rest == Tail(shape)
             step == Product(rest)
         IN  Arr([i \in 1..size |->
                     reshapeTypedArray(elems, rest, offset + (i - 1) * step)])

(* isNumpyContainer, data-response.ts:1039 *)
isNumpyContainer(value) ==
    HasKey(value, "data") /\ HasKey(value, "type") /\ HasKey(value, "nd")

\* the dimension sizes of a shape the decoder can walk: an Array of
\* non-negative integers
IsDims(shape) ==
    /\ IsArray(shape)
    /\ \A i \in 1..Len(Elems(shape)) :
          Tag(Elems(shape)[i]) = "num" /\ Elems(shape)[i][2] >= 0
Dims(shape) == [i \in 1..Len(Elems(shape)) |-> Elems(shape)[i][2]]

\* the dtype text of decodeNumpyContainer (data-response.ts:1050-1055)
ContainerDtype(container) ==
    LET type == GetKey(container, "type")
    IN  IF Tag(type) = "str" THEN type[2]
        ELSE IF IsArray(type)
             THEN ToStr(IF Len(Elems(type)) > 0 THEN Elems(type)[1] ELSE Undef)
             ELSE ""

(* decodeNumpyContainer, data-response.ts:1049.  A truthy shape that is no *)
(* Array (a number, true, a plain object) has no slice method: TypeError.  *)
decodeNumpyContainer(container) ==
    LET dtype == ContainerDtype(container)
        bytes == toUint8Array(GetKey(container, "data"))
        typed == createTypedArray(dtype, bytes)
        shape == GetKey(container, "shape")
    IN  IF ~Truthy(GetKey(container, "nd"))
        THEN IF IsThrow(typed) THEN typed
             ELSE IF typed # Null
                  THEN IF Len(typed[3]) > 0 THEN typed[3][1] ELSE Undef
                  ELSE IF Len(bytes) > 0 THEN Num(bytes[1]) ELSE Undef
        ELSE IF IsThrow(typed) THEN typed
        ELSE IF typed = Null THEN Arr(SeqMap(Num, bytes))
        ELSE IF ~Truthy(shape) \/ (IsArray(shape) /\ Len(Elems(shape)) = 0)
             THEN Arr(typed[3])
        ELSE IF IsDims(shape) THEN reshapeTypedArray(typed[3], Dims(shape), 0)
        ELSE Throw("TypeError")

---------------------------------------------------------------------------
(* Inputs of the tensor decoder.                                           *)

MaxRank == 3

\* n consecutive byte values from start, wrapping at 256
Ramp(start, n) == [i \in 1..n |-> (start + i - 1) % 256]

\* Float32Array.from(<<n>>) as bytes, for an integer |n| < 2^24
F32Enc(n) ==
    IF n = 0 THEN <<0, 0, 0, 0>>
    ELSE LET mag == IF n < 0 THEN 0 - n ELSE n
             e == CHOOSE k \in 0..23 : 2 ^ k <= mag /\ mag < 2 ^ (k + 1)
             man == (mag - 2 ^ e) * (2 ^ (23 - e))
             exp == e + 127
         IN  << man % 256, (man \div 256) % 256,
                (exp % 2) * 128 + (man \div 65536),
                (IF n < 0 THEN 128 ELSE 0) + (exp \div 2) >>

RECURSIVE Flatten(_)
Flatten(ss) == IF ss = <<>> THEN <<>> ELSE Head(ss) \o Flatten(Tail(ss))

\* the bytes of Float32Array.from(values), values a sequence of integers
F32Bytes(values) == Flatten([i \in 1..Len(values) |-> F32Enc(values[i])])

DataValues ==
    {Bytes(Ramp(s, n)) : s \in {1, 254}, n \in 0..MaxDataLen}
    \cup {Bytes(F32Bytes([i \in 1..n |-> i])) : n \in 1..MaxDataLen}
    \cup {Arr(<<Num(7), Num(300)>>), Null}

TypeValues ==
    {Str(s) : s \in {"<f4", "float32", "<f8", "<i4", "<i2", "|i1", "int8",
                     "<u4", "<u2", "uint16", "|u1", "uint8", "FLOAT32",
                     "<c8", ""}}
    \cup {Arr(<<Str("<i2")>>), Arr(<<>>), Num(5)}

ShapeValues ==
    {Arr(SeqMap(Num, d)) :
        d \in UNION {[1..r -> 0..MaxDim] : r \in 0..MaxRank}}
    \cup {Undef, Num(2)}

---------------------------------------------------------------------------
(* SpecTensor: one tensor container is decoded.                            *)

InitTensor ==
    /\ OutsideInit
    /\ pc = "start"
    /\ \E nd \in {Bool(TRUE), Bool(FALSE)}, ty \in TypeValues,
          sh \in ShapeValues, da \in DataValues :
          payload = Obj(<< <<"nd", nd>>, <<"type", ty>>, <<"kind", Str("")>>,
                           <<"shape", sh>>, <<"data", da>> >>)
    /\ normalized = Undef
    /\ result = Undef
    /\ target = EmptyObj
    /\ merged = <<>>
    /\ recordName = Undef
    /\ envelope = Undef

DecodeTensor ==
    /\ pc = "start"
    /\ result' = decodeNumpyContainer(payload)
    /\ pc' = "done"
    /\ UNCHANGED <<payload, normalized, target, merged, recordName, envelope, outside>>

NextTensor == DecodeTensor

SpecTensor == InitTensor /\ [][NextTensor]_vars

---------------------------------------------------------------------------
(* Claims about the tensor container decoder (SpecTensor).                 *)

\* the container has a recognized dtype and its data decodes to whole elements
Recognized(c) ==
    /\ DtypeKind(ToLowerCase(ContainerDtype(c))) # "none"
    /\ Len(toUint8Array(GetKey(c, "data")))
          % ElemWidth(DtypeKind(ToLowerCase(ContainerDtype(c)))) = 0

\* the flat element array E of a recognized container
FlatElems(c) ==
    TypedElems(DtypeKind(ToLowerCase(ContainerDtype(c))),
               toUint8Array(GetKey(c, "data")))

\* v is nested Arrays whose lengths are dims, level by level
RECURSIVE HasShape(_, _)
HasShape(v, dims) ==
    IF dims = <<>> THEN ~IsArray(v)
    ELSE /\ IsArray(v)
         /\ Len(Elems(v)) = Head(dims)
         /\ \A i \in 1..Len(Elems(v)) : HasShape(Elems(v)[i], Tail(dims))

\* the element of the nested Arrays v at the (1-based) index tuple idx
RECURSIVE At(_, _)
At(v, idx) == IF idx = <<>> THEN v ELSE At(Elems(v)[Head(idx)], Tail(idx))

\* the 0-based row-major offset of the (1-based) index tuple idx
RowMajor(dims, idx) ==
    LET RECURSIVE R(_)
        R(k) == IF k > Len(dims) THEN 0
                ELSE (idx[k] - 1) * Product(SubSeq(dims, k + 1, Len(dims)))
                     + R(k + 1)
    IN  R(1)

IndexTuples(dims) ==
    {idx \in [1..Len(dims) -> 1..(MaxDim + 1)] :
        \A k \in 1..Len(dims) : idx[k] <= dims[k]}

\* C5: for a container with a recognized dtype whose data decodes to the flat
\* array E: a false isMultiDimensional yields E[0] (absent when E is empty);
\* true with an absent or empty shape yields E as a flat sequence; true with
\* a shape of length N whose product is |E| yields the N-deep nested sequence
\* whose element at (i1,...,iN) is E at the row-major offset of the index.
C5_TensorDecode ==
    (pc = "done" /\ Recognized(payload)) =>
        LET E == FlatElems(payload)
            shape == GetKey(payload, "shape")
        IN  /\ ~Truthy(GetKey(payload, "nd")) =>
                   result = (IF Len(E) > 0 THEN E[1] ELSE Undef)
            /\ (Truthy(GetKey(payload, "nd"))
                  /\ (shape = Undef \/ shape = Arr(<<>>))) =>
                   result = Arr(E)
            /\ (Truthy(GetKey(payload, "nd")) /\ IsDims(shape)
                  /\ Len(Dims(shape)) > 0
                  /\ Product(Dims(shape)) = Len(E)) =>
                   /\ HasShape(result, Dims(shape))
                   /\ \A idx \in IndexTuples(Dims(shape)) :
                          At(result, idx) = E[RowMajor(Dims(shape), idx) + 1]

\* C5 witness: float32, shape [2,3] over 1..6 decoded to [[1,2,3],[4,5,6]]
C5_Witness ==
    /\ pc = "done"
    /\ GetKey(payload, "nd") = Bool(TRUE)
    /\ GetKey(payload, "type") = Str("<f4")
    /\ GetKey(payload, "shape") = Arr(<<Num(2), Num(3)>>)
    /\ GetKey(payload, "data") = Bytes(F32Bytes(<<1, 2, 3, 4, 5, 6>>))
    /\ result = Arr(<< Arr(<<Num(1), Num(2), Num(3)>>),
                       Arr(<<Num(4), Num(5), Num(6)>>) >>)

\* the raw bytes of a container as a flat sequence of unsigned 8-bit integers
RawByteSeq(c) == Arr(SeqMap(Num, toUint8Array(GetKey(c, "data"))))

Unrecognized(c) == DtypeKind(ToLowerCase(ContainerDtype(c))) = "none"

\* C6 (as claimed): for every container whose dtype tag is not recognized,
\* whatever its isMultiDimensional flag and shape, decoding returns the raw
\* bytes as a flat sequence of unsigned 8-bit integers.
C6_Original ==
    (pc = "done" /\ Unrecognized(payload)) => result = RawByteSeq(payload)

\* C6 (amended): for an unrecognized dtype decoding never fails; with a true
\* isMultiDimensional it returns the raw bytes as a flat sequence whatever the
\* shape, and with a false one it returns the first raw byte, absent when
\* there is none.
C6_UnknownDtype ==
    (pc = "done" /\ Unrecognized(payload)) =>
        /\ ~IsThrow(result)
        /\ Truthy(GetKey(payload, "nd")) => result = RawByteSeq(payload)
        /\ ~Truthy(GetKey(payload, "nd")) =>
               result = (IF Len(toUint8Array(GetKey(payload, "data"))) > 0
                         THEN Num(toUint8Array(GetKey(payload, "data"))[1])
                         ELSE Undef)

\* C6 witness: an unrecognized dtype with a two-dimensional shape that does
\* not fit the data, decoded to the flat raw bytes
C6_Witness ==
    /\ pc = "done"
    /\ GetKey(payload, "type") = Str("<c8")
    /\ GetKey(payload, "nd") = Bool(TRUE)
    /\ GetKey(payload, "shape") = Arr(<<Num(2), Num(2)>>)
    /\ result = Arr(<<Num(1), Num(2), Num(3)>>)

---------------------------------------------------------------------------
(* The value normalizer.                                                   *)

(* isPossibleObj, data-response.ts:181; value is an Array *)
isPossibleObj(value) ==
    /\ Len(Elems(value)) > 0
    /\ \A i \in 1..Len(Elems(value)) :
          /\ IsArray(Elems(value)[i])
          /\ Len(Elems(Elems(value)[i])) = 2
          /\ (IsString(Elems(Elems(value)[i])[1])
                \/ IsNumber(Elems(Elems(value)[i])[1]))

\* the object built by assigning the <<key, value>> pairs in order
FromEntries(pairs) ==
    LET RECURSIVE F(_, _)
        F(o, k) == IF k > Len(pairs) THEN o
                   ELSE F(ObjSet(o, pairs[k][1], pairs[k][2]), k + 1)
    IN  F(EmptyObj, 1)

(* normalize, data-response.ts:268.  ArrayBuffer, DataView and Map inputs  *)
(* are not values of the model.  An error raised inside is passed on.      *)
RECURSIVE normalize(_)
normalize(value) ==
    CASE IsNullish(value) -> value
      [] IsArray(value) ->
            IF isPossibleObj(value)
            THEN LET vals == [i \in 1..Len(Elems(value)) |->
                                 normalize(Elems(Elems(value)[i])[2])]
                 IN  IF FirstThrow(vals) # Undef THEN FirstThrow(vals)
                     ELSE FromEntries([i \in 1..Len(vals) |->
                              <<ToStr(Elems(Elems(value)[i])[1]), vals[i]>>])
            ELSE LET vals == SeqMap(normalize, Elems(value))
                 IN  IF FirstThrow(vals) # Undef THEN FirstThrow(vals)
                     ELSE Arr(vals)
      [] IsObject(value) ->
            IF isNumpyContainer(value)
            THEN LET decoded == decodeNumpyContainer(value)
                 IN  IF IsThrow(decoded) THEN decoded ELSE normalize(decoded)
            ELSE LET vals == [i \in 1..Len(ObjPairs(value)) |->
                                 normalize(ObjPairs(value)[i][2])]
                 IN  IF FirstThrow(vals) # Undef THEN FirstThrow(vals)
                     ELSE Obj([i \in 1..Len(vals) |->
                                  <<ObjPairs(value)[i][1], vals[i]>>])
      [] OTHER -> value

---------------------------------------------------------------------------
(* Inputs of the normalizer.                                               *)

Container(nd, ty, sh, da) ==
    Obj(<< <<"nd", nd>>, <<"type", ty>>, <<"kind", Str("")>>,
           <<"shape", sh>>, <<"data", da>> >>)

Dim(d) == Arr(SeqMap(Num, d))

NormContainers ==
    {Container(nd, Str(ty), sh, Bytes(Ramp(1, n))) :
        nd \in {Bool(TRUE), Bool(FALSE)}, ty \in {"<u1", "<i2", "<c8"},
        sh \in {Undef, Dim(<<2>>), Dim(<<1, 2>>), Dim(<<2, 2>>),
                Dim(<<2, 3>>), Dim(<<2, 1, 2>>)},
        n \in 0..MaxDataLen}

\* a scalar, a vector, two matrices, an unknown dtype, a truncated payload
FewContainers ==
    { Container(Bool(FALSE), Str("<u1"), Undef, Bytes(<<5>>)),
      Container(Bool(TRUE), Str("<u1"), Dim(<<2>>), Bytes(<<1, 2>>)),
      Container(Bool(TRUE), Str("<u1"), Dim(<<2, 2>>), Bytes(Ramp(1, 4))),
      Container(Bool(TRUE), Str("<i2"), Dim(<<1, 3>>), Bytes(Ramp(1, 6))),
      Container(Bool(TRUE), Str("<c8"), Dim(<<2>>), Bytes(<<9>>)),
      Container(Bool(TRUE), Str("<i2"), Dim(<<1>>), Bytes(Ramp(1, 3))) }

Atoms ==
    {Null, Bool(TRUE), Num(1), Num(2), Str("a"), Str("status"),
     Bytes(<<1, 2>>)}

Level1 == Atoms \cup FewContainers

Level2 ==
    {Arr(s) : s \in UNION {[1..n -> Level1] : n \in 0..2}}
    \cup {Obj(<< <<k, v>> >>) : k \in {"a", "x"}, v \in Level1}

RawValues ==
    NormContainers \cup Level1 \cup Level2
    \cup {Arr(<<v>>) : v \in Level2}
    \cup {Obj(<< <<"a", v>> >>) : v \in Level2}

---------------------------------------------------------------------------
(* SpecNormalize: a raw value is normalized, and the outcome again.        *)

InitNormalize ==
    /\ OutsideInit
    /\ pc = "start"
    /\ payload \in RawValues
    /\ normalized = Undef
    /\ result = Undef
    /\ target = EmptyObj
    /\ merged = <<>>
    /\ recordName = Undef
    /\ envelope = Undef

NormalizeOnce ==
    /\ pc = "start"
    /\ normalized' = normalize(payload)
    /\ pc' = "once"
    /\ UNCHANGED <<payload, result, target, merged, recordName, envelope, outside>>

NormalizeAgain ==
    /\ pc = "once"
    /\ ~IsThrow(normalized)
    /\ result' = normalize(normalized)
    /\ pc' = "twice"
    /\ UNCHANGED <<payload, normalized, target, merged, recordName, envelope, outside>>

NextNormalize == NormalizeOnce \/ NormalizeAgain

SpecNormalize == InitNormalize /\ [][NextNormalize]_vars

---------------------------------------------------------------------------
(* Claims about the normalizer (SpecNormalize).                            *)

\* C2: normalize is idempotent: normalize(normalize(v)) equals normalize(v)
\* for every input v.
C2_Idempotent == pc = "twice" => result = normalized

\* the input with each tensor container replaced by what the tensor decoder
\* yields for it, and nothing else done to the decoder's output
RECURSIVE Materialized(_)
Materialized(value) ==
    CASE IsArray(value) ->
            IF isPossibleObj(value)
            THEN FromEntries([i \in 1..Len(Elems(value)) |->
                     <<ToStr(Elems(Elems(value)[i])[1]),
                       Materialized(Elems(Elems(value)[i])[2])>>])
            ELSE Arr(SeqMap(Materialized, Elems(value)))
      [] IsObject(value) ->
            IF isNumpyContainer(value) THEN decodeNumpyContainer(value)
            ELSE Obj([i \in 1..Len(ObjPairs(value)) |->
                         <<ObjPairs(value)[i][1],
                           Materialized(ObjPairs(value)[i][2])>>])
      [] OTHER -> value

RECURSIVE HasThrow(_)
HasThrow(v) ==
    CASE IsThrow(v) -> TRUE
      [] IsArray(v) -> \E i \in 1..Len(Elems(v)) : HasThrow(Elems(v)[i])
      [] IsObject(v) ->
            \E i \in 1..Len(ObjPairs(v)) : HasThrow(ObjPairs(v)[i][2])
      [] OTHER -> FALSE

\* C4: every tensor container of the input, at any depth, is replaced in
\* normalize's output by the plain nested numeric sequence or scalar the
\* tensor decoder yields for it (an N-deep nested sequence for a shape of
\* length N, whatever the shape), the rest of the tree keeping its structure.
C4_Materialized ==
    (pc = "once" /\ ~HasThrow(Materialized(payload))) =>
        normalized = Materialized(payload)

---------------------------------------------------------------------------
(* Scalar coercion and byte-text transcoding.                              *)

\* Number(text) for the texts of the model, blanks around the digits being
\* skipped; any other text is not numeric
NumberOfStr(s) ==
    CASE s \in {"", "0", "0 "} -> Num(0)
      [] s = "1" -> Num(1)
      [] s = "2" -> Num(2)
      [] s = "7" -> Num(7)
      [] s = "-1" -> Num(0 - 1)
      [] s = "3.5" -> <<"f64", <<0, 0, 0, 0, 0, 0, 12, 64>> >>
      [] s = "Infinity" -> <<"inf">>
      [] s = "-Infinity" -> <<"ninf">>
      [] OTHER -> NaN

(* asNumber, data-response.ts:1181 *)
RECURSIVE asNumber(_)
asNumber(value) ==
    CASE IsNumber(value) -> IF value = NaN THEN Undef ELSE value
      [] Tag(value) = "str" ->
            IF NumberOfStr(value[2]) = NaN THEN Undef
            ELSE NumberOfStr(value[2])
      [] Tag(value) = "b64" -> Undef
      [] IsArray(value) /\ Len(Elems(value)) > 0 -> asNumber(Elems(value)[1])
      [] Tag(value) = "typed" /\ Len(value[3]) > 0 ->
            IF value[2] = "u8" THEN Num(value[3][1])
            ELSE IF value[3][1] = NaN THEN Undef ELSE value[3][1]
      [] OTHER -> Undef

\* asBoolean taking only the texts "true" and "false" as they are
asBooleanStrict(value) ==
    CASE Tag(value) = "bool" -> value
      [] IsNumber(value) ->
            IF value = NaN THEN Undef ELSE Bool(value # Num(0))
      [] value = Str("true") -> Bool(TRUE)
      [] value = Str("false") -> Bool(FALSE)
      [] OTHER -> Undef

(* asBoolean, data-response.ts:1199 *)
asBoolean(value) ==
    CASE Tag(value) = "bool" -> value
      [] IsNumber(value) ->
            IF value = NaN THEN Undef ELSE Bool(value # Num(0))
      [] Tag(value) = "str"
         /\ ToLowerCase(Trim(value[2])) \in {"true", "1"} -> Bool(TRUE)
      [] Tag(value) = "str"
         /\ ToLowerCase(Trim(value[2])) \in {"false", "0"} -> Bool(FALSE)
      [] OTHER -> Undef

(* asString, data-response.ts:1221 *)
asString(value) ==
    CASE IsString(value) -> value
      [] IsNumber(value) \/ Tag(value) = "bool" -> Str(ToStr(value))
      [] OTHER -> Undef

(* isFiniteNumber, data-response.ts:1300 *)
isFiniteNumber(value) ==
    IsNumber(value) /\ Tag(value) \notin {"nan", "inf", "ninf"}

(* toNumericArray, data-response.ts:1162; the result is an Array *)
toNumericArray(value) ==
    CASE IsArray(value) ->
            Arr(SelectSeq(SeqMap(asNumber, Elems(value)), isFiniteNumber))
      [] Tag(value) = "typed" ->
            IF value[2] = "u8"
            THEN Arr([i \in 1..Len(value[3]) |-> Num(value[3][i])])
            ELSE Arr(SelectSeq(value[3], LAMBDA e : e # NaN))
      [] OTHER ->
            IF asNumber(value) # Undef THEN Arr(<<asNumber(value)>>)
            ELSE Arr(<<>>)

\* the base64 digits (64 is the padding) of a byte sequence
RECURSIVE B64Digits(_)
B64Digits(b) ==
    CASE Len(b) = 0 -> <<>>
      [] Len(b) = 1 -> <<b[1] \div 4, (b[1] % 4) * 16, 64, 64>>
      [] Len(b) = 2 ->
            <<b[1] \div 4, (b[1] % 4) * 16 + (b[2] \div 16),
              (b[2] % 16) * 4, 64>>
      [] OTHER ->
            <<b[1] \div 4, (b[1] % 4) * 16 + (b[2] \div 16),
              (b[2] % 16) * 4 + (b[3] \div 64), b[3] % 64>>
            \o B64Digits(SubSeq(b, 4, Len(b)))

\* the bytes of a sequence of base64 digits, whole groups of four
RECURSIVE B64Bytes(_)
B64Bytes(d) ==
    IF Len(d) < 4 THEN <<>>
    ELSE LET b1 == d[1] * 4 + (d[2] \div 16)
             b2 == (d[2] % 16) * 16 + (d[3] \div 4)
             b3 == (d[3] % 4) * 64 + d[4]
         IN  (CASE d[3] = 64 -> <<b1>>
                [] d[3] # 64 /\ d[4] = 64 -> <<b1, b2>>
                [] OTHER -> <<b1, b2, b3>>)
             \o B64Bytes(SubSeq(d, 5, Len(d)))

(* bytesToBase64, data-response.ts:1254 *)
bytesToBase64(bytes) ==
    IF Len(bytes) = 0 THEN Str("") ELSE <<"b64", B64Digits(bytes)>>

(* base64ToBytes, data-response.ts:1278; of the plain texts only the empty *)
(* one is decoded in the model                                             *)
base64ToBytes(text) ==
    CASE text = Str("") -> Bytes(<<>>)
      [] Tag(text) = "b64" -> Bytes(B64Bytes(text[2]))

---------------------------------------------------------------------------
(* Record decoders.                                                        *)

(* resolveRecord, data-response.ts:977 *)
resolveRecord(value) ==
    IF ~IsObjectLike(value) THEN Null
    ELSE IF HasKey(value, "name")
         THEN Obj(SelectSeq(ObjPairs(value), LAMBDA kv : kv[1] # "name"))
         ELSE value

\* readField passing over an alias whose value is null or undefined
readFieldSkipNullish(source, keys) ==
    IF \E i \in 1..Len(keys) : ~IsNullish(GetKey(source, keys[i]))
    THEN GetKey(source, keys[CHOOSE i \in 1..Len(keys) :
                    /\ ~IsNullish(GetKey(source, keys[i]))
                    /\ \A j \in 1..(i - 1) : IsNullish(GetKey(source, keys[j]))])
    ELSE Undef

(* readField, data-response.ts:996; keys is the alias list, in order *)
readField(source, keys) ==
    IF \E i \in 1..Len(keys) : HasKey(source, keys[i])
    THEN GetKey(source, keys[CHOOSE i \in 1..Len(keys) :
                    /\ HasKey(source, keys[i])
                    /\ \A j \in 1..(i - 1) : ~HasKey(source, keys[j])])
    ELSE Undef

\* connected taken as "status is not zero"
ConnectedNonZero(status) == status # Num(0)

\* (status & STATUS_CONNECTED) === STATUS_CONNECTED, data-response.ts:647;
\* ToInt32 of a non-finite number is 0
ConnectedBit(status) == IF Tag(status) = "num" THEN status[2] % 2 = 1 ELSE FALSE

(* decodePosition, data-response.ts:628 *)
decodePosition(value) ==
    LET data == resolveRecord(value)
        status == asNumber(readField(data, <<"status", "Status">>))
        position ==
            Obj(<< <<"status", status>>,
                   <<"x", asNumber(readField(data, <<"x", "X">>))>>,
                   <<"y", asNumber(readField(data, <<"y", "Y">>))>>,
                   <<"z", asNumber(readField(data, <<"z", "Z">>))>>,
                   <<"azimuth",
                     asNumber(readField(data, <<"azimuth", "Azimuth">>))>>,
                   <<"elevation",
                     asNumber(readField(data, <<"elevation", "Elevation">>))>>,
                   <<"rotation",
                     asNumber(readField(data, <<"rotation", "Rotation">>))>> >>)
        connected == asBoolean(readField(data, <<"connected", "Connected">>))
    IN  IF data = Null THEN Null
        ELSE IF status # Undef
             THEN ObjSet(position, "connected", Bool(ConnectedBit(status)))
             ELSE IF connected # Undef
                  THEN ObjSet(position, "connected", connected)
                  ELSE position

(* decodeOffset, data-response.ts:658 *)
decodeOffset(value) ==
    LET data == resolveRecord(value)
    IN  IF data = Null THEN Null
        ELSE Obj(<<
            <<"off_x", asNumber(readField(data, <<"x", "X", "off_x", "offX">>))>>,
            <<"off_y", asNumber(readField(data, <<"y", "Y", "off_y", "offY">>))>>,
            <<"off_z", asNumber(readField(data, <<"z", "Z", "off_z", "offZ">>))>>,
            <<"unit", asString(readField(data, <<"unit">>))>>,
            <<"heading_offset",
              asNumber(readField(data, <<"heading_offset", "headingOffset">>))>>,
            <<"elevation_offset",
              asNumber(readField(data,
                           <<"elevation_offset", "elevationOffset">>))>> >>)

(* decodeColorCorrection, data-response.ts:676 *)
decodeColorCorrection(value) ==
    LET data == resolveRecord(value)
        h == asNumber(readField(data, <<"h", "H">>))
        s == asNumber(readField(data, <<"s", "S">>))
        v == asNumber(readField(data, <<"v", "V">>))
    IN  IF data = Null THEN Null
        ELSE IF h = Undef /\ s = Undef /\ v = Undef THEN Null
        ELSE Obj(<< <<"h", h>>, <<"s", s>>, <<"v", v>> >>)

(* decodeImage, data-response.ts:709 *)
decodeImage(value) ==
    LET data == resolveRecord(value)
        rawData == readField(data, <<"data", "Data">>)
        text ==
            IF Tag(rawData) = "typed"
            THEN bytesToBase64(toUint8Array(rawData))
            ELSE IF IsArray(rawData) /\ Len(Elems(rawData)) > 0
                    /\ IsNumber(Elems(rawData)[1])
            THEN bytesToBase64(SeqMap(ToUint8, Elems(rawData)))
            ELSE IF ~IsNullish(rawData) /\ ~IsString(rawData)
            THEN Str(ToStr(rawData))
            ELSE rawData
    IN  IF data = Null THEN Null
        ELSE Obj(<< <<"valid", asBoolean(readField(data, <<"valid", "Valid">>))>>,
                    <<"width", asNumber(readField(data, <<"width", "Width">>))>>,
                    <<"height", asNumber(readField(data, <<"height", "Height">>))>>,
                    <<"data", IF IsString(text) THEN text ELSE Undef>> >>)

(* decodeColor, data-response.ts:693 *)
decodeColor(value) ==
    LET data == resolveRecord(value)
        image == decodeImage(readField(data, <<"image", "Image">>))
    IN  IF data = Null THEN Null
        ELSE IF image = Null THEN Null
        ELSE Obj(<< <<"image", image>> >>)

(* decodeScreenLocation, data-response.ts:784 *)
decodeScreenLocation(value) ==
    LET data == resolveRecord(value)
    IN  IF data = Null THEN Null
        ELSE Obj(<< <<"x", asNumber(readField(data, <<"x", "X">>))>>,
                    <<"y", asNumber(readField(data, <<"y", "Y">>))>>,
                    <<"width", asNumber(readField(data, <<"width", "Width">>))>>,
                    <<"height",
                      asNumber(readField(data, <<"height", "Height">>))>> >>)

(* decodeMapLocation, data-response.ts:798 *)
decodeMapLocation(value) ==
    LET data == resolveRecord(value)
    IN  IF data = Null THEN Null
        ELSE Obj(<< <<"x", toNumericArray(readField(data, <<"x", "X">>))>>,
                    <<"y", toNumericArray(readField(data, <<"y", "Y">>))>>,
                    <<"z", toNumericArray(readField(data, <<"z", "Z">>))>> >>)

(* decodeDetection, data-response.ts:763 *)
decodeDetection(value) ==
    LET data == resolveRecord(value)
    IN  IF data = Null THEN Null
        ELSE Obj(<<
            <<"class_id",
              asNumber(readField(data, <<"class", "class_id", "classId">>))>>,
            <<"prob", asNumber(readField(data, <<"prob", "probability">>))>>,
            <<"depth", asNumber(readField(data, <<"depth">>))>>,
            <<"screen_location",
              decodeScreenLocation(
                  readField(data, <<"screenLocation", "screen_location">>))>>,
            <<"map_location",
              decodeMapLocation(
                  readField(data, <<"mapLocation", "map_location">>))>> >>)

(* decodeDetections, data-response.ts:740; the result is an Array *)
RECURSIVE decodeDetections(_)
decodeDetections(value) ==
    CASE ~Truthy(value) -> Arr(<<>>)
      [] IsArray(value) ->
            Arr(SelectSeq(SeqMap(decodeDetection, Elems(value)),
                          LAMBDA d : ~IsNullish(d)))
      [] IsObject(value) /\ IsArray(ObjGet(value, "detections")) ->
            decodeDetections(ObjGet(value, "detections"))
      [] IsObject(value) /\ ~IsArray(ObjGet(value, "detections"))
            /\ ObjHas(value, "name") ->
            Arr(<<decodeDetection(value)>>)
      [] OTHER -> Arr(<<>>)

(* decodeStats, data-response.ts:811 *)
decodeStats(value) ==
    LET data == resolveRecord(value)
    IN  IF data = Null THEN Null
        ELSE Obj(<<
            <<"fps", asNumber(readField(data, <<"fps", "FPS">>))>>,
            <<"invoke_time",
              asNumber(readField(data, <<"infer_time", "inferTime", "InferTime">>))>>,
            <<"video_width",
              asNumber(readField(data,
                           <<"video_width", "videoWidth", "VideoWidth">>))>>,
            <<"video_height",
              asNumber(readField(data,
                           <<"video_height", "videoHeight", "VideoHeight">>))>>,
            <<"run_time",
              asNumber(readField(data, <<"run_time", "runTime", "RunTime">>))>>,
            <<"gps_connected",
              asBoolean(readField(data,
                            <<"gps_connected", "gpsConnected", "GPSConnected">>))>>,
            <<"cpu_temp",
              asNumber(readField(data, <<"cpu_temp", "cpuTemp", "cpuTempurature",
                                         "CPUTempurature">>))>> >>)

\* one slot of decodeAIRecord's partial: set when the field is present and
\* its decode is kept (data-response.ts:590-623)
PartialSlot(key, field, decoded, kept) ==
    IF field # Undef /\ kept THEN << <<key, decoded>> >> ELSE <<>>

NotNull(v) == v # Null
NotEmpty(list) == Len(Elems(list)) > 0

\* Object.keys(partial).length > 0 ? partial : null
PartialOrNull(pairs) == IF Len(pairs) > 0 THEN Obj(pairs) ELSE Null

(* decodeAIRecord, data-response.ts:582 *)
decodeAIRecord(value) ==
    LET data == resolveRecord(value)
    IN  IF data = Null THEN Null
        ELSE PartialOrNull(
                 PartialSlot("position", GetKey(data, "position"),
                             decodePosition(GetKey(data, "position")),
                             NotNull(decodePosition(GetKey(data, "position"))))
                 \o PartialSlot("detections", GetKey(data, "detections"),
                                decodeDetections(GetKey(data, "detections")),
                                NotEmpty(decodeDetections(GetKey(data, "detections"))))
                 \o PartialSlot("stats", GetKey(data, "stats"),
                                decodeStats(GetKey(data, "stats")),
                                NotNull(decodeStats(GetKey(data, "stats"))))
                 \o PartialSlot("color", GetKey(data, "color"),
                                decodeColor(GetKey(data, "color")),
                                NotNull(decodeColor(GetKey(data, "color"))))
                 \o PartialSlot("depth", GetKey(data, "depth"),
                                decodeColor(GetKey(data, "depth")),
                                NotNull(decodeColor(GetKey(data, "depth")))))

---------------------------------------------------------------------------
(* The response merger.  A DataResponse is an object; every operation      *)
(* returns the target after the merge, or the error it raised.             *)

\* text.includes(part) for the lower-cased origin keys of the model
Includes(text, part) ==
    CASE part = "gps" -> text \in {"gps", "gpsunit", "gpscamera"}
      [] part = "camera" -> text \in {"camera", "cameraunit", "gpscamera"}
      [] part = "depth" -> text \in {"depth", "depthview"}

(* assignDefined, data-response.ts:1008 *)
assignDefined(tgt, partial) ==
    LET RECURSIVE A(_, _)
        A(t, k) ==
            IF k > Len(ObjPairs(partial)) THEN t
            ELSE A(IF IsNullish(ObjPairs(partial)[k][2]) THEN t
                   ELSE ObjSet(t, ObjPairs(partial)[k][1],
                               ObjPairs(partial)[k][2]),
                   k + 1)
    IN  A(tgt, 1)

\* if (partial) assignDefined(target, partial), data-response.ts:394
AssignPartial(tgt, partial) ==
    IF partial = Null THEN tgt ELSE assignDefined(tgt, partial)

\* the AIRecord handler putting the partial in the place of the target
handleAIRecordReplace(tgt, record) ==
    IF decodeAIRecord(record) = Null THEN tgt ELSE decodeAIRecord(record)

(* recordHandlers.AIRecord, data-response.ts:392 *)
handleAIRecord(tgt, record) == AssignPartial(tgt, decodeAIRecord(record))

\* the Position handler keeping a position the target already has
handlePositionKeepFirst(tgt, record) ==
    LET position == decodePosition(record)
    IN  IF position = Null \/ Truthy(ObjGet(tgt, "position")) THEN tgt
        ELSE ObjSet(tgt, "position", position)

(* recordHandlers.Position, data-response.ts:398 *)
handlePosition(tgt, record) ==
    LET position == decodePosition(record)
    IN  IF position = Null THEN tgt ELSE ObjSet(tgt, "position", position)

\* the Offset handler without the test that the gps slot is empty
handleOffsetOverwrite(tgt, record, originKey) ==
    LET offset == decodeOffset(record)
        key == ToLowerCase(ToStr(originKey))
    IN  IF offset = Null THEN tgt
        ELSE IF Truthy(originKey) /\ Includes(key, "gps")
        THEN ObjSet(tgt, "gpsOffset", offset)
        ELSE IF Truthy(originKey) /\ Includes(key, "camera")
        THEN ObjSet(tgt, "cameraOffset", offset)
        ELSE IF ~Truthy(ObjGet(tgt, "cameraOffset"))
        THEN ObjSet(tgt, "cameraOffset", offset)
        ELSE ObjSet(tgt, "gpsOffset", offset)

(* recordHandlers.Offset, data-response.ts:404 *)
handleOffset(tgt, record, originKey) ==
    LET offset == decodeOffset(record)
        key == ToLowerCase(ToStr(originKey))
    IN  IF offset = Null THEN tgt
        ELSE IF Truthy(originKey) /\ Includes(key, "gps")
        THEN ObjSet(tgt, "gpsOffset", offset)
        ELSE IF Truthy(originKey) /\ Includes(key, "camera")
        THEN ObjSet(tgt, "cameraOffset", offset)
        ELSE IF ~Truthy(ObjGet(tgt, "cameraOffset"))
        THEN ObjSet(tgt, "cameraOffset", offset)
        ELSE IF ~Truthy(ObjGet(tgt, "gpsOffset"))
        THEN ObjSet(tgt, "gpsOffset", offset)
        ELSE tgt

(* recordHandlers.Statistics, data-response.ts:428 *)
handleStatistics(tgt, record) ==
    LET stats == decodeStats(record)
    IN  IF stats = Null THEN tgt ELSE ObjSet(tgt, "stats", stats)

\* the ColorCorrection handler storing whatever the decoder returns
handleColorCorrectionAlways(tgt, record) ==
    ObjSet(tgt, "colorCorrection", decodeColorCorrection(record))

(* recordHandlers.ColorCorrection, data-response.ts:434 *)
handleColorCorrection(tgt, record) ==
    LET correction == decodeColorCorrection(record)
    IN  IF correction = Null THEN tgt
        ELSE ObjSet(tgt, "colorCorrection", correction)

\* the Detection handler putting the new detection first
handleDetectionPrepend(tgt, record) ==
    LET detection == decodeDetection(record)
        list == IF Truthy(ObjGet(tgt, "detections"))
                THEN Elems(ObjGet(tgt, "detections")) ELSE <<>>
    IN  IF detection = Null THEN tgt
        ELSE ObjSet(tgt, "detections", Arr(<<detection>> \o list))

(* recordHandlers.Detection, data-response.ts:440 *)
handleDetection(tgt, record) ==
    LET detection == decodeDetection(record)
        list == IF Truthy(ObjGet(tgt, "detections"))
                THEN Elems(ObjGet(tgt, "detections")) ELSE <<>>
    IN  IF detection = Null THEN tgt
        ELSE ObjSet(tgt, "detections", Arr(Append(list, detection)))

\* the Color handler that never looks at the origin key
handleColorNoHint(tgt, record, originKey) ==
    LET color == decodeColor(record)
    IN  IF color = Null THEN tgt ELSE ObjSet(tgt, "color", color)

(* recordHandlers.Color, data-response.ts:456 *)
handleColor(tgt, record, originKey) ==
    LET color == decodeColor(record)
    IN  IF color = Null THEN tgt
        ELSE IF Truthy(originKey)
                /\ Includes(ToLowerCase(ToStr(originKey)), "depth")
        THEN ObjSet(tgt, "depth", color)
        ELSE ObjSet(tgt, "color", color)

(* recordHandlers.Image, data-response.ts:467 *)
handleImage(tgt, record, originKey) ==
    LET image == decodeImage(record)
        colorRecord == Obj(<< <<"image", image>> >>)
    IN  IF image = Null THEN tgt
        ELSE IF Truthy(originKey)
                /\ Includes(ToLowerCase(ToStr(originKey)), "depth")
        THEN ObjSet(tgt, "depth", colorRecord)
        ELSE ObjSet(tgt, "color", colorRecord)

\* the property names recordHandlers inherits from Object.prototype, as far
\* as the model draws discriminators from them
InheritedNoEffect == {"constructor", "toString"}
InheritedRaising == {"__proto__"}

(* mergeRecord, data-response.ts:569.  recordHandlers[record.name] also    *)
(* finds what the table inherits: Object.prototype itself under            *)
(* "__proto__" (truthy, and no function: the call raises a TypeError), and *)
(* the methods of Object.prototype, of which constructor and toString      *)
(* return without touching the target.                                     *)
mergeRecord(tgt, record, originKey) ==
    LET name == ToStr(ObjGet(record, "name"))
    IN  CASE name = "AIRecord" -> handleAIRecord(tgt, record)
          [] name = "Position" -> handlePosition(tgt, record)
          [] name = "Offset" -> handleOffset(tgt, record, originKey)
          [] name = "Statistics" -> handleStatistics(tgt, record)
          [] name = "ColorCorrection" -> handleColorCorrection(tgt, record)
          [] name = "Detection" -> handleDetection(tgt, record)
          [] name \in {"ImageDetection", "MapDetection"} -> tgt
          [] name = "Color" -> handleColor(tgt, record, originKey)
          [] name = "Image" -> handleImage(tgt, record, originKey)
          [] name \in InheritedRaising -> Throw("TypeError")
          [] name \in InheritedNoEffect -> tgt
          [] OTHER -> tgt

\* Object.entries(value) of an object or an Array (index keys)
Entries(value) ==
    CASE IsObject(value) -> ObjPairs(value)
      [] IsArray(value) ->
            [i \in 1..Len(Elems(value)) |-> <<ToString(i - 1), Elems(value)[i]>>]
      [] OTHER -> <<>>

(* mergeValue, data-response.ts:496, and mergeKeyValue, data-response.ts:511; *)
(* mergeEntries is the forEach over Object.entries, from the k-th entry on *)
RECURSIVE mergeValue(_, _, _)
RECURSIVE mergeKeyValue(_, _, _)
RECURSIVE mergeEntries(_, _, _)
mergeEntries(tgt, entries, k) ==
    IF IsThrow(tgt) \/ k > Len(entries) THEN tgt
    ELSE mergeEntries(mergeKeyValue(tgt, entries[k][1], entries[k][2]),
                      entries, k + 1)

mergeValue(tgt, value, originKey) ==
    IF ~IsObjectLike(value) THEN tgt
    ELSE IF HasKey(value, "name") THEN mergeRecord(tgt, value, originKey)
    ELSE mergeEntries(tgt, Entries(value), 1)

mergeKeyValue(tgt, key, value) ==
    CASE key \in {"Command", "command", "Message", "message"} ->
            IF IsNullish(value) THEN tgt
            ELSE ObjSet(tgt, "command",
                        IF IsString(value) THEN value ELSE Str(ToStr(value)))
      [] key \in {"Valid", "valid"} -> ObjSet(tgt, "valid", asBoolean(value))
      [] key \in {"CameraOffset", "cameraOffset", "camera_offset"} ->
            ObjSet(tgt, "cameraOffset", decodeOffset(value))
      [] key \in {"GpsOffset", "gpsOffset", "gps_offset"} ->
            ObjSet(tgt, "gpsOffset", decodeOffset(value))
      [] key \in {"ColorCorrection", "colorCorrection", "color_correction"} ->
            ObjSet(tgt, "colorCorrection", decodeColorCorrection(value))
      [] key \in {"Color", "color"} -> ObjSet(tgt, "color", decodeColor(value))
      [] key \in {"Depth", "depth"} -> ObjSet(tgt, "depth", decodeColor(value))
      [] key \in {"Detections", "detections"} ->
            ObjSet(tgt, "detections", decodeDetections(value))
      [] key \in {"Position", "position"} ->
            ObjSet(tgt, "position", decodePosition(value))
      [] key \in {"Stats", "stats"} -> ObjSet(tgt, "stats", decodeStats(value))
      [] OTHER -> mergeValue(tgt, value, Str(key))

\* the forEach of buildDataResponse over a sequence (data-response.ts:337),
\* from its k-th element on: an element that carries a "name" goes to
\* mergeRecord, as mergeValue sends it, any other to mergeValue
RECURSIVE mergeSequence(_, _, _)
mergeSequence(tgt, elems, k) ==
    IF IsThrow(tgt) \/ k > Len(elems) THEN tgt
    ELSE mergeSequence(mergeValue(tgt, elems[k], Undef), elems, k + 1)

(* buildDataResponse, data-response.ts:329.  A single mapping with a       *)
(* "name" goes to mergeRecord, as mergeValue sends it; a mapping without   *)
(* one is merged key by key, as mergeValue does.                           *)
buildDataResponse(raw) ==
    CASE IsNullish(raw) -> Null
      [] IsArray(raw) -> mergeSequence(EmptyObj, Elems(raw), 1)
      [] Tag(raw) \in {"typed", "obj"} -> mergeValue(EmptyObj, raw, Undef)
      [] OTHER -> Null

\* the unwrapper without its loop: one envelope is taken off
unwrapOnce(value) ==
    IF IsArray(value) /\ Len(Elems(value)) > 0
       /\ Tag(Elems(value)[1]) = "str"
       /\ ToLowerCase(Elems(value)[1][2]) = "message"
    THEN IF Len(Elems(value)) = 1 THEN Null
         ELSE IF Len(Elems(value)) = 2 THEN Elems(value)[2]
         ELSE Arr(Tail(Elems(value)))
    ELSE value

(* unwrapSocketMessagePayload, data-response.ts:157 *)
RECURSIVE unwrapSocketMessagePayload(_)
unwrapSocketMessagePayload(value) ==
    IF IsArray(value) /\ Len(Elems(value)) > 0
       /\ Tag(Elems(value)[1]) = "str"
       /\ ToLowerCase(Elems(value)[1][2]) = "message"
    THEN IF Len(Elems(value)) = 1 THEN Null
         ELSE unwrapSocketMessagePayload(
                  IF Len(Elems(value)) = 2 THEN Elems(value)[2]
                  ELSE Arr(Tail(Elems(value))))
    ELSE value

\* buildDataResponse(normalized), unless normalize raised
BuildUnlessThrown(value) ==
    IF IsThrow(value) THEN value ELSE buildDataResponse(value)

(* deserializeDataResponse, data-response.ts:237 *)
deserializeDataResponse(value) ==
    IF IsNullish(value) THEN Null
    ELSE BuildUnlessThrown(normalize(unwrapSocketMessagePayload(value)))

---------------------------------------------------------------------------
(* Inputs of the merger: the elements of a normalized top-level sequence.  *)

Named(name, fields) == Obj(<< <<"name", Str(name)>> >> \o fields)

OffsetRecords ==
    {Named("Offset", << <<"x", Num(n)>>, <<"unit", Str("m")>> >>) :
        n \in {1, 2, 7}}

DetectionRecords ==
    {Named("Detection", << <<"class_id", Num(n)>>, <<"prob", Num(1)>> >>) :
        n \in {2, 1, 7}}

PositionRecord == Named("Position", << <<"status", Num(1)>>, <<"x", Num(2)>> >>)

AIRecordWithDetections ==
    Named("AIRecord",
          << <<"position", Obj(<< <<"x", Num(7)>> >>)>>,
             <<"detections",
               Arr(<< Named("Detection", << <<"class_id", Num(0)>> >>) >>)>> >>)

AIRecordPositionOnly ==
    Named("AIRecord", << <<"position", Obj(<< <<"x", Num(1)>> >>)>> >>)

AIRecordStatsOnly ==
    Named("AIRecord", << <<"stats", Obj(<< <<"fps", Num(1)>> >>)>> >>)

KnownNames ==
    {"Position", "Offset", "Statistics", "ColorCorrection", "Detection",
     "ImageDetection", "MapDetection", "AIRecord", "Color", "Image"}

UnknownRecords ==
    {Named(n, << <<"x", Num(1)>> >>) :
        n \in {"Telemetry"} \cup InheritedNoEffect \cup InheritedRaising}

NamedRecords ==
    OffsetRecords \cup DetectionRecords \cup UnknownRecords
    \cup { PositionRecord, AIRecordWithDetections, AIRecordPositionOnly,
           AIRecordStatsOnly,
           Named("Position", << <<"x", Num(7)>> >>),
           Named("Statistics", << <<"fps", Num(7)>> >>),
           Named("Statistics", << <<"fps", Num(2)>> >>),
           Named("ColorCorrection", << <<"h", Num(1)>> >>),
           Named("ColorCorrection", << <<"s", Num(2)>> >>),
           Named("ColorCorrection", <<>>),
           Named("Color", << <<"image",
                 Obj(<< <<"width", Num(2)>>, <<"data", Bytes(<<1, 2, 7>>)>> >>)>> >>),
           Named("ImageDetection", << <<"x", Num(1)>> >>) }

\* elements that are no named record: a scalar, a flat mapping, a mapping
\* that carries a named record under a key (its origin hint)
OtherValues ==
    { Num(7),
      Obj(<< <<"position", Obj(<< <<"x", Num(1)>> >>)>> >>),
      Obj(<< <<"gps", Named("Offset", << <<"x", Num(0)>> >>)>> >>),
      Obj(<< <<"cameraOffset", Obj(<< <<"x", Num(0)>> >>)>> >>) }

IsNamed(entry) == IsObjectLike(entry) /\ HasKey(entry, "name")
NameOf(entry) == ToStr(ObjGet(entry, "name"))

---------------------------------------------------------------------------
(* Spec: buildDataResponse folds the elements of a sequence, one by one,   *)
(* into a fresh target and returns it; an error raised by a merge leaves   *)
(* the call.                                                               *)

Init ==
    /\ OutsideInit
    /\ pc = "merging"
    /\ payload = Undef
    /\ normalized = Undef
    /\ result = Undef
    /\ target = EmptyObj
    /\ merged = <<>>
    /\ recordName = Undef
    /\ envelope = Undef

Merged(entry, after) ==
    /\ merged' = Append(merged, entry)
    /\ IF IsThrow(after)
       THEN pc' = "threw" /\ result' = after /\ target' = target
       ELSE pc' = pc /\ result' = result /\ target' = after
    /\ UNCHANGED <<payload, normalized, recordName, envelope, outside>>

\* an element carrying a "name" goes to mergeRecord
MergeRecord ==
    /\ pc = "merging"
    /\ Len(merged) < MaxSeq
    /\ \E entry \in NamedRecords :
          Merged(entry, mergeRecord(target, entry, Undef))

\* any other element goes to mergeValue
MergeValue ==
    /\ pc = "merging"
    /\ Len(merged) < MaxSeq
    /\ \E entry \in OtherValues :
          Merged(entry, mergeValue(target, entry, Undef))

Return ==
    /\ pc = "merging"
    /\ pc' = "done"
    /\ result' = target
    /\ UNCHANGED <<payload, normalized, target, merged, recordName, envelope, outside>>

Next == MergeRecord \/ MergeValue \/ Return

Spec == Init /\ [][Next]_vars

---------------------------------------------------------------------------
(* Offset slot-filling (recordHandlers.Offset).                            *)

HintFreeOffsets(seq) == \A i \in 1..Len(seq) : seq[i] \in OffsetRecords

\* the step merged the hint-free Offset record that is now last in merged
MergedHintFreeOffset ==
    /\ merged' # merged
    /\ merged'[Len(merged')] \in OffsetRecords
    /\ pc' = "merging"

Slot(snapshot, key) == ObjGet(snapshot, key)
Filled(snapshot, key) == Truthy(ObjGet(snapshot, key))

OffsetFillsFirstEmptySlot ==
    MergedHintFreeOffset =>
        LET offset == decodeOffset(merged'[Len(merged')])
        IN  /\ Slot(target', "cameraOffset") =
                 IF Filled(target, "cameraOffset")
                 THEN Slot(target, "cameraOffset") ELSE offset
            /\ Slot(target', "gpsOffset") =
                 IF Filled(target, "cameraOffset") /\ ~Filled(target, "gpsOffset")
                 THEN offset ELSE Slot(target, "gpsOffset")

OffsetsOntoEmpty ==
    (pc = "merging" /\ HintFreeOffsets(merged)) =>
        /\ Len(merged) >= 1 =>
              Slot(target, "cameraOffset") = decodeOffset(merged[1])
        /\ Len(merged) >= 2 =>
              Slot(target, "gpsOffset") = decodeOffset(merged[2])
        /\ Len(merged) < 2 => ~Filled(target, "gpsOffset")
        /\ Len(merged) < 1 => ~Filled(target, "cameraOffset")

\* C8: hint-free Offset records merged onto an empty snapshot fill
\* cameraOffset with the first and gpsOffset with the second, and later ones
\* change neither; in every snapshot a hint-free Offset fills cameraOffset
\* if it is empty, otherwise gpsOffset if it is empty, and never replaces a
\* filled slot.
C8_OffsetSlots == []OffsetsOntoEmpty /\ [][OffsetFillsFirstEmptySlot]_vars

C8_Witness ==
    /\ Len(merged) = 3
    /\ HintFreeOffsets(merged)
    /\ merged[3] \notin {merged[1], merged[2]}
    /\ merged[1] # merged[2]
    /\ Slot(target, "cameraOffset") = decodeOffset(merged[1])
    /\ Slot(target, "gpsOffset") = decodeOffset(merged[2])

---------------------------------------------------------------------------
(* Detection accumulation (recordHandlers.Detection, recordHandlers.AIRecord) *)

AllNamed(seq) == \A i \in 1..Len(seq) : IsNamed(seq[i])

IsDetectionRecord(entry) == IsNamed(entry) /\ NameOf(entry) = "Detection"

\* the detections an AIRecord carries, decoded; <<>> when it carries none
CarriedDetections(entry) ==
    IF IsNamed(entry) /\ NameOf(entry) = "AIRecord"
       /\ IsArray(decodeDetections(GetKey(entry, "detections")))
    THEN Elems(decodeDetections(GetKey(entry, "detections")))
    ELSE <<>>

\* what is in the snapshot's detections list (absent: nothing)
DetectionList(snapshot) ==
    IF IsArray(ObjGet(snapshot, "detections"))
    THEN Elems(ObjGet(snapshot, "detections")) ELSE <<>>

\* the records that reached the snapshot: all but one whose merge raised
Arrived == IF pc = "threw" THEN SubSeq(merged, 1, Len(merged) - 1) ELSE merged

\* one decoded entry per Detection record of seq, in the order of seq
DecodedDetections(seq) ==
    LET picked == SelectSeq(seq, IsDetectionRecord)
    IN  [i \in 1..Len(picked) |-> decodeDetection(picked[i])]

\* index of the last record of seq that carries detections, 0 if none
LastCarrier(seq) ==
    LET carriers == {i \in 1..Len(seq) : CarriedDetections(seq[i]) # <<>>}
    IN  IF carriers = {} THEN 0
        ELSE CHOOSE i \in carriers : \A j \in carriers : j <= i

\* part occurs in whole, in the order of part
IsSubsequence(part, whole) ==
    \E at \in [1..Len(part) -> 1..Len(whole)] :
        /\ \A i, j \in 1..Len(part) : i < j => at[i] < at[j]
        /\ \A i \in 1..Len(part) : whole[at[i]] = part[i]

\* the statement as the specification words it: the list holds an entry for
\* every Detection record of the sequence, in arrival order, whatever else
\* was merged in between
C9_Original ==
    AllNamed(merged) =>
        IsSubsequence(DecodedDetections(Arrived), DetectionList(target))

\* C9: after merging a sequence of named records, the detections list is
\* the list carried by the last AIRecord that carries detections (nothing,
\* if there is none) followed by one entry for every Detection record
\* merged after it, in arrival order, unsorted and with duplicates kept.
C9_DetectionsSinceLastAIRecord ==
    AllNamed(merged) =>
        LET last == LastCarrier(Arrived)
            carried == IF last = 0 THEN <<>>
                       ELSE CarriedDetections(Arrived[last])
        IN  DetectionList(target) =
               carried \o DecodedDetections(SubSeq(Arrived, last + 1, Len(Arrived)))

C9_Witness ==
    /\ Len(merged) = 3
    /\ merged[1] \in DetectionRecords
    /\ merged[2] = AIRecordWithDetections
    /\ merged[3] \in DetectionRecords
    /\ Len(DetectionList(target)) = 2
    /\ DetectionList(target)[2] = decodeDetection(merged[3])

---------------------------------------------------------------------------
(* Unknown discriminators in a sequence (mergeRecord, buildDataResponse).  *)

IsUnknownRecord(entry) == IsNamed(entry) /\ NameOf(entry) \notin KnownNames

WithoutUnknown(seq) == SelectSeq(seq, LAMBDA e : ~IsUnknownRecord(e))

\* C10: a named record with an unknown discriminator is skipped without
\* error and without changing the snapshot: the call returns the snapshot
\* built from the same sequence with the unknown records removed.
C10_UnknownSkipped ==
    /\ pc # "threw"
    /\ pc = "done" =>
          result = buildDataResponse(Arr(WithoutUnknown(merged)))

---------------------------------------------------------------------------
(* Record encoders.  A typed record is an object that carries the fields   *)
(* that are present; value ?? fallback is OrElse.                          *)

\* value ?? fallback
OrElse(value, fallback) == IF IsNullish(value) THEN fallback ELSE value

\* the characters of a text, for the one text that an encoder can return
Chars(s) ==
    CASE s = "[object Undefined]" ->
            <<"[", "o", "b", "j", "e", "c", "t", " ", "U", "n", "d", "e", "f",
              "i", "n", "e", "d", "]">>
      [] OTHER -> <<>>

(* cleanPayload, data-response.ts:1016; Object.entries of a text are its   *)
(* characters under their indices                                          *)
cleanPayload(raw) ==
    IF Tag(raw) = "str"
    THEN Obj([i \in 1..Len(Chars(raw[2])) |->
                <<ToString(i - 1), Str(Chars(raw[2])[i])>>])
    ELSE Obj(SelectSeq(ObjPairs(raw), LAMBDA kv : kv[2] # Undef))

\* { name, ...payload } of encodeRecord, unless the encoder raised; index
\* keys come first in a mapping
Envelope(name, raw) ==
    IF IsThrow(raw) THEN raw
    ELSE IF Tag(raw) = "str"
    THEN Obj(ObjPairs(cleanPayload(raw)) \o << <<"name", Str(name)>> >>)
    ELSE Obj(<< <<"name", Str(name)>> >> \o ObjPairs(cleanPayload(raw)))

(* typedArrayToBytes, data-response.ts:1231, of Float32Array.from(values)  *)
typedArrayToBytes(values) ==
    Bytes(F32Bytes([i \in 1..Len(values) |-> values[i][2]]))

\* encodeNumericArray leaving the field out when there is nothing to encode
encodeNumericArrayOrNothing(values) ==
    LET array == IF IsArray(values) THEN Elems(values) ELSE <<>>
    IN  IF array = <<>> THEN Undef
        ELSE Obj(<< <<"nd", Bool(TRUE)>>,
                    <<"type", Str("<f4")>>,
                    <<"kind", Str("")>>,
                    <<"shape", Arr(<<Num(Len(array))>>)>>,
                    <<"data", typedArrayToBytes(array)>> >>)

(* encodeNumericArray, data-response.ts:962 *)
encodeNumericArray(values) ==
    LET array == IF IsArray(values) THEN Elems(values) ELSE <<>>
    IN  Obj(<< <<"nd", Bool(TRUE)>>,
               <<"type", Str("<f4")>>,
               <<"kind", Str("")>>,
               <<"shape", Arr(<<Num(Len(array))>>)>>,
               <<"data", typedArrayToBytes(array)>> >>)

(* encodePositionRecord, data-response.ts:836 *)
encodePositionRecord(position) ==
    Obj(<< <<"frame_count", Num(0)>>,
           <<"status", OrElse(ObjGet(position, "status"), Num(0))>>,
           <<"x", OrElse(ObjGet(position, "x"), Num(0))>>,
           <<"y", OrElse(ObjGet(position, "y"), Num(0))>>,
           <<"z", OrElse(ObjGet(position, "z"), Num(0))>>,
           <<"azimuth", OrElse(ObjGet(position, "azimuth"), Num(0))>>,
           <<"elevation", OrElse(ObjGet(position, "elevation"), Num(0))>>,
           <<"rotation", OrElse(ObjGet(position, "rotation"), Num(0))>> >>)

(* encodeOffsetRecord, data-response.ts:849 *)
encodeOffsetRecord(offset) ==
    Obj(<< <<"off_x", OrElse(ObjGet(offset, "off_x"), Num(0))>>,
           <<"off_y", OrElse(ObjGet(offset, "off_y"), Num(0))>>,
           <<"off_z", OrElse(ObjGet(offset, "off_z"), Num(0))>>,
           <<"unit", OrElse(ObjGet(offset, "unit"), Str(""))>>,
           <<"heading_offset",
             OrElse(ObjGet(offset, "heading_offset"), Num(0))>>,
           <<"elevation_offset",
             OrElse(ObjGet(offset, "elevation_offset"), Num(0))>> >>)

(* encodeStatsRecord, data-response.ts:860 *)
encodeStatsRecord(stats) ==
    Obj(<< <<"fps", OrElse(ObjGet(stats, "fps"), Num(0))>>,
           <<"infer_time", OrElse(ObjGet(stats, "invoke_time"), Num(0))>>,
           <<"video_width", OrElse(ObjGet(stats, "video_width"), Num(0))>>,
           <<"video_height", OrElse(ObjGet(stats, "video_height"), Num(0))>>,
           <<"run_time", OrElse(ObjGet(stats, "run_time"), Num(0))>>,
           <<"gps_connected",
             OrElse(ObjGet(stats, "gps_connected"), Bool(FALSE))>>,
           <<"cpu_temp", OrElse(ObjGet(stats, "cpu_temp"), Num(0))>> >>)

(* encodeColorCorrectionRecord, data-response.ts:872 *)
encodeColorCorrectionRecord(correction) ==
    Obj(<< <<"h", OrElse(ObjGet(correction, "h"), Num(0))>>,
           <<"s", OrElse(ObjGet(correction, "s"), Num(0))>>,
           <<"v", OrElse(ObjGet(correction, "v"), Num(0))>> >>)

(* encodeImageDetectionRecord, data-response.ts:907 *)
encodeImageDetectionRecord(location) ==
    Obj(<< <<"x", OrElse(ObjGet(location, "x"), Num(0))>>,
           <<"y", OrElse(ObjGet(location, "y"), Num(0))>>,
           <<"width", OrElse(ObjGet(location, "width"), Num(0))>>,
           <<"height", OrElse(ObjGet(location, "height"), Num(0))>> >>)

(* encodeMapDetectionRecord, data-response.ts:918 *)
encodeMapDetectionRecord(location) ==
    Obj(<< <<"x", encodeNumericArray(ObjGet(location, "x"))>>,
           <<"y", encodeNumericArray(ObjGet(location, "y"))>>,
           <<"z", encodeNumericArray(ObjGet(location, "z"))>> >>)

(* encodeImageRecord, data-response.ts:948 *)
encodeImageRecord(image) ==
    Obj(<< <<"valid", Bool(Truthy(ObjGet(image, "valid")))>>,
           <<"width", OrElse(ObjGet(image, "width"), Num(0))>>,
           <<"height", OrElse(ObjGet(image, "height"), Num(0))>>,
           <<"data", IF IsString(ObjGet(image, "data"))
                     THEN base64ToBytes(ObjGet(image, "data"))
                     ELSE Bytes(<<>>)>> >>)

RECURSIVE encodeRecord(_, _)

\* value ? encodeRecord(name, value) : undefined
EncodeIfPresent(name, value) ==
    IF Truthy(value) THEN encodeRecord(name, value) ELSE Undef

(* encodeColorRecord, data-response.ts:942 *)
encodeColorRecord(color) ==
    Obj(<< <<"image", EncodeIfPresent("Image", ObjGet(color, "image"))>> >>)

(* encodeDetectionRecord, data-response.ts:882 *)
encodeDetectionRecord(detection) ==
    Obj(<< <<"class_id", OrElse(ObjGet(detection, "class_id"), Num(0))>>,
           <<"probability", OrElse(ObjGet(detection, "prob"), Num(0))>>,
           <<"depth", OrElse(ObjGet(detection, "depth"), Num(0))>>,
           <<"screen_location",
             encodeRecord("ImageDetection",
                 OrElse(ObjGet(detection, "screen_location"),
                        Obj(<< <<"x", Num(0)>>, <<"y", Num(0)>>,
                               <<"width", Num(0)>>, <<"height", Num(0)>> >>)))>>,
           <<"map_location",
             encodeRecord("MapDetection",
                 OrElse(ObjGet(detection, "map_location"),
                        Obj(<< <<"x", Arr(<<>>)>>, <<"y", Arr(<<>>)>>,
                               <<"z", Arr(<<>>)>> >>)))>> >>)

\* (record.detections ?? []).map((det) => encodeRecord("Detection", det))
EncodeDetections(list) ==
    Arr([i \in 1..Len(Elems(list)) |-> encodeRecord("Detection", Elems(list)[i])])

(* encodeAIRecordRecord, data-response.ts:928 *)
encodeAIRecordRecord(record) ==
    Obj(<< <<"position", encodeRecord("Position", ObjGet(record, "position"))>>,
           <<"detections",
             EncodeDetections(OrElse(ObjGet(record, "detections"), Arr(<<>>)))>>,
           <<"stats", EncodeIfPresent("Statistics", ObjGet(record, "stats"))>>,
           <<"color", EncodeIfPresent("Color", ObjGet(record, "color"))>>,
           <<"depth", EncodeIfPresent("Color", ObjGet(record, "depth"))>> >>)

(* recordEncoders, data-response.ts:481, as encodeRecord uses it: the      *)
(* lookup recordEncoders[name] also finds what the table inherits from     *)
(* Object.prototype.  constructor is Object, which returns the value it is *)
(* given; toString, called without a receiver, returns the text            *)
(* "[object Undefined]"; "__proto__" is Object.prototype itself, truthy    *)
(* and no function, so the call raises a TypeError.  Any other name finds  *)
(* undefined and encodeRecord raises its Error (data-response.ts:258).     *)
recordEncoders(name, value) ==
    CASE name = "Position" -> encodePositionRecord(value)
      [] name = "Offset" -> encodeOffsetRecord(value)
      [] name = "Statistics" -> encodeStatsRecord(value)
      [] name = "ColorCorrection" -> encodeColorCorrectionRecord(value)
      [] name = "Detection" -> encodeDetectionRecord(value)
      [] name = "ImageDetection" -> encodeImageDetectionRecord(value)
      [] name = "MapDetection" -> encodeMapDetectionRecord(value)
      [] name = "AIRecord" -> encodeAIRecordRecord(value)
      [] name = "Color" -> encodeColorRecord(value)
      [] name = "Image" -> encodeImageRecord(value)
      [] name = "constructor" -> value
      [] name = "toString" -> Str("[object Undefined]")
      [] name \in InheritedRaising -> Throw("TypeError")
      [] OTHER -> Throw("Error")

(* encodeRecord, data-response.ts:252 *)
encodeRecord(name, value) == Envelope(name, recordEncoders(name, value))

(* recordDecoders, data-response.ts:370: the ten decoders; the table also  *)
(* finds what it inherits from Object.prototype, called as its method:     *)
(* constructor returns the record itself, toString the text                *)
(* "[object Object]", and "__proto__" is no function.  Any other name      *)
(* finds undefined, and calling it raises a TypeError.                     *)
recordDecoders(name, record) ==
    CASE name = "AIRecord" -> decodeAIRecord(record)
      [] name = "Position" -> decodePosition(record)
      [] name = "Offset" -> decodeOffset(record)
      [] name = "Statistics" -> decodeStats(record)
      [] name = "ColorCorrection" -> decodeColorCorrection(record)
      [] name = "Detection" -> decodeDetection(record)
      [] name = "ImageDetection" -> decodeScreenLocation(record)
      [] name = "MapDetection" -> decodeMapLocation(record)
      [] name = "Color" -> decodeColor(record)
      [] name = "Image" -> decodeImage(record)
      [] name = "constructor" -> record
      [] name = "toString" -> Str("[object Object]")
      [] OTHER -> Throw("TypeError")

(* decodeRecord, data-response.ts:246 *)
decodeRecord(record) == recordDecoders(ToStr(GetKey(record, "name")), record)

---------------------------------------------------------------------------
(* SpecCodec: a typed record is encoded and the envelope decoded again; an *)
(* envelope received from elsewhere is decoded.                            *)

\* a field that is present with value v, or absent (v = Undef)
Opt(key, v) == IF v = Undef THEN <<>> ELSE << <<key, v>> >>

\* connected never contradicts the status bit
PositionValues ==
    {position \in
        {Obj(Opt("status", s) \o Opt("x", x) \o Opt("connected", c)) :
            s \in {Undef, Num(0), Num(1)}, x \in {Undef, Num(2)},
            c \in {Undef, Bool(TRUE)}} :
        ObjGet(position, "connected") = Undef
            \/ ObjGet(position, "status") # Num(0)}

OffsetValues ==
    {Obj(Opt("off_x", x) \o Opt("unit", u)) :
        x \in {Undef, Num(2)}, u \in {Undef, Str("m")}}

StatisticsValues ==
    {Obj(Opt("fps", f) \o Opt("invoke_time", t) \o Opt("gps_connected", g)) :
        f \in {Undef, Num(7)}, t \in {Undef, Num(2)}, g \in {Undef, Bool(TRUE)}}

ColorCorrectionValues ==
    {Obj(Opt("h", h) \o Opt("v", v)) : h \in {Undef, Num(1)}, v \in {Undef, Num(2)}}

ScreenLocationValues ==
    {Obj(Opt("x", x) \o Opt("width", w)) :
        x \in {Undef, Num(1)}, w \in {Undef, Num(7)}}

MapLocationValues ==
    {Obj(Opt("x", x) \o Opt("y", y)) :
        x \in {Undef, Arr(<<>>), Arr(<<Num(1)>>), Arr(<<Num(1), Num(2)>>)},
        y \in {Undef, Arr(<<Num(7)>>)}}

DetectionValues ==
    {Obj(Opt("class_id", c) \o Opt("screen_location", s) \o Opt("map_location", m)) :
        c \in {Undef, Num(1)},
        s \in {Undef, Obj(<< <<"x", Num(1)>> >>)},
        m \in {Undef, Obj(<<>>), Obj(<< <<"x", Arr(<<Num(1)>>)>> >>)}}

ImageValues ==
    {Obj(Opt("valid", v) \o Opt("width", w) \o Opt("data", d)) :
        v \in {Undef, Bool(TRUE)}, w \in {Undef, Num(2)},
        d \in {Undef, Str(""), bytesToBase64(<<1, 2, 7>>), bytesToBase64(<<255>>)}}

ColorValues ==
    { EmptyObj,
      Obj(<< <<"image", Obj(<< <<"width", Num(2)>>,
                               <<"data", bytesToBase64(<<1, 2>>)>> >>)>> >>) }

AIRecordValues ==
    {Obj(<< <<"position", Obj(<< <<"x", Num(1)>> >>)>> >>
         \o Opt("detections", d) \o Opt("stats", s)) :
        d \in {Undef, Arr(<< Obj(<< <<"class_id", Num(1)>> >>) >>)},
        s \in {Undef, Obj(<< <<"fps", Num(7)>> >>)}}

TypedRecords ==
    ({"Position"} \X PositionValues) \cup ({"Offset"} \X OffsetValues)
    \cup ({"Statistics"} \X StatisticsValues)
    \cup ({"ColorCorrection"} \X ColorCorrectionValues)
    \cup ({"ImageDetection"} \X ScreenLocationValues)
    \cup ({"MapDetection"} \X MapLocationValues)
    \cup ({"Detection"} \X DetectionValues)
    \cup ({"Image"} \X ImageValues) \cup ({"Color"} \X ColorValues)
    \cup ({"AIRecord"} \X AIRecordValues)

\* envelopes as a peer may send them: known kinds with wire spellings,
\* discriminators that are no record kind, and no discriminator at all
ReceivedEnvelopes ==
    { Named("Position", << <<"Status", Str("1")>>, <<"X", Num(2)>> >>),
      Named("Statistics", << <<"FPS", Num(7)>>, <<"gpsConnected", Str("true")>> >>),
      Named("ColorCorrection", <<>>),
      Named("Image", << <<"data", Arr(<<Num(1), Num(2)>>)>> >>),
      Named("Telemetry", << <<"x", Num(1)>> >>),
      Named("position", << <<"x", Num(1)>> >>),
      Named("constructor", <<>>),
      Named("toString", <<>>),
      Named("__proto__", <<>>),
      Obj(<< <<"x", Num(1)>> >>) }

InitCodec ==
    /\ OutsideInit
    /\ normalized = Undef
    /\ result = Undef
    /\ target = EmptyObj
    /\ merged = <<>>
    /\ \/ /\ pc = "typed"
          /\ \E tv \in TypedRecords : recordName = Str(tv[1]) /\ payload = tv[2]
          /\ envelope = Undef
       \/ /\ pc = "received"
          /\ recordName = Undef
          /\ payload = Undef
          /\ envelope \in ReceivedEnvelopes

EncodeRecord ==
    /\ pc = "typed"
    /\ envelope' = encodeRecord(ToStr(recordName), payload)
    /\ pc' = "encoded"
    /\ UNCHANGED <<payload, normalized, result, target, merged, recordName, outside>>

DecodeRecord ==
    /\ pc \in {"encoded", "received"}
    /\ result' = decodeRecord(envelope)
    /\ pc' = "decoded"
    /\ UNCHANGED <<payload, normalized, target, merged, recordName, envelope, outside>>

NextCodec == EncodeRecord \/ DecodeRecord

SpecCodec == InitCodec /\ [][NextCodec]_vars

---------------------------------------------------------------------------
(* Claims about the record codec (SpecCodec).                              *)

\* the fields of a record kind and what each holds
Fields(kindName) ==
    CASE kindName = "Position" ->
            << <<"status", <<"num">>>>, <<"x", <<"num">>>>, <<"y", <<"num">>>>,
               <<"z", <<"num">>>>, <<"azimuth", <<"num">>>>,
               <<"elevation", <<"num">>>>, <<"rotation", <<"num">>>>,
               <<"connected", <<"derived">>>> >>
      [] kindName = "Offset" ->
            << <<"off_x", <<"num">>>>, <<"off_y", <<"num">>>>,
               <<"off_z", <<"num">>>>, <<"unit", <<"text">>>>,
               <<"heading_offset", <<"num">>>>,
               <<"elevation_offset", <<"num">>>> >>
      [] kindName = "Statistics" ->
            << <<"fps", <<"num">>>>, <<"invoke_time", <<"num">>>>,
               <<"video_width", <<"num">>>>, <<"video_height", <<"num">>>>,
               <<"run_time", <<"num">>>>, <<"gps_connected", <<"bool">>>>,
               <<"cpu_temp", <<"num">>>> >>
      [] kindName = "ColorCorrection" ->
            << <<"h", <<"num">>>>, <<"s", <<"num">>>>, <<"v", <<"num">>>> >>
      [] kindName = "ImageDetection" ->
            << <<"x", <<"num">>>>, <<"y", <<"num">>>>,
               <<"width", <<"num">>>>, <<"height", <<"num">>>> >>
      [] kindName = "MapDetection" ->
            << <<"x", <<"nums">>>>, <<"y", <<"nums">>>>, <<"z", <<"nums">>>> >>
      [] kindName = "Detection" ->
            << <<"class_id", <<"num">>>>, <<"prob", <<"num">>>>,
               <<"depth", <<"num">>>>,
               <<"screen_location", <<"record", "ImageDetection">>>>,
               <<"map_location", <<"record", "MapDetection">>>> >>
      [] kindName = "Image" ->
            << <<"valid", <<"bool">>>>, <<"width", <<"num">>>>,
               <<"height", <<"num">>>>, <<"data", <<"text">>>> >>
      [] kindName = "Color" -> << <<"image", <<"record", "Image">>>> >>
      [] kindName = "AIRecord" ->
            << <<"position", <<"record", "Position">>>>,
               <<"detections", <<"records", "Detection">>>>,
               <<"stats", <<"record", "Statistics">>>>,
               <<"color", <<"record", "Color">>>>,
               <<"depth", <<"record", "Color">>>> >>

\* decoded is the typed record x of kindName with each absent scalar or
\* numeric-sequence field replaced by its zero value (0, empty text, false,
\* empty sequence).  A nested record or a list of records that x does not
\* carry is not compared, and neither is connected when x does not carry
\* it (the decoder derives it from status).
RECURSIVE Agrees(_, _, _)
FieldAgrees(holds, a, v) ==
    CASE holds[1] = "num" -> a = OrElse(v, Num(0))
      [] holds[1] = "text" -> a = OrElse(v, Str(""))
      [] holds[1] = "bool" -> a = OrElse(v, Bool(FALSE))
      [] holds[1] = "nums" -> a = OrElse(v, Arr(<<>>))
      [] holds[1] = "derived" -> IsNullish(v) \/ a = v
      [] holds[1] = "record" -> IsNullish(v) \/ Agrees(holds[2], a, v)
      [] holds[1] = "records" ->
            \/ IsNullish(v)
            \/ /\ IsArray(a)
               /\ Len(Elems(a)) = Len(Elems(v))
               /\ \A i \in 1..Len(Elems(v)) :
                     Agrees(holds[2], Elems(a)[i], Elems(v)[i])

Agrees(kindName, decoded, x) ==
    /\ IsObject(decoded)
    /\ \A i \in 1..Len(Fields(kindName)) :
          FieldAgrees(Fields(kindName)[i][2],
                      ObjGet(decoded, Fields(kindName)[i][1]),
                      ObjGet(x, Fields(kindName)[i][1]))

RoundTripped == pc = "decoded" /\ recordName # Undef

\* C3: decodeRecord(encodeRecord(kind, x)) is x with each absent optional
\* field replaced by its zero-value default, for every record kind.
C3_RoundTripWithDefaults ==
    RoundTripped => Agrees(ToStr(recordName), result, payload)

\* C7: decodeRecord raises no error, whatever the discriminator of the
\* envelope: it returns a typed record or null.
C7_DecodeNeverRaises ==
    pc = "decoded" => ~IsThrow(result) /\ (result = Null \/ IsObject(result))

---------------------------------------------------------------------------
(* SpecDeserialize: deserializeDataResponse is called on a decoded wire    *)
(* payload.                                                                *)

\* socket-style envelopes around a payload
Wrapped(inner) ==
    { Arr(<<Str("message"), inner>>),
      Arr(<<Str("MESSAGE"), Str("message"), inner>>),
      Arr(<<Str("message"), inner, inner>>),
      Arr(<<Str("update"), inner>>) }

\* a detection whose map location carries tensor containers
TensorDetection ==
    Named("Detection",
          << <<"class_id", Num(1)>>,
             <<"map_location",
               Obj(<< <<"x", Container(Bool(TRUE), Str("<f4"), Dim(<<1>>),
                                       Bytes(F32Bytes(<<2>>)))>>,
                      <<"y", Container(Bool(TRUE), Str("<f4"), Dim(<<1>>),
                                       Bytes(<<0, 0, 128>>))>> >>)>> >>)

FlatMappings ==
    { Obj(<< <<"command", Str("a")>>, <<"valid", Num(1)>> >>),
      Obj(<< <<"Message", Num(2)>>,
             <<"position", Obj(<< <<"x", Str("2")>> >>)>> >>),
      Obj(<< <<"detections", Arr(<<TensorDetection>>)>>,
             <<"stats", Obj(<< <<"fps", Num(7)>> >>)>> >>),
      Obj(<< <<"depthView", Named("Image", << <<"data", Bytes(<<1, 2, 7>>)>> >>)>>,
             <<"cameraUnit", Named("Offset", << <<"x", Num(1)>> >>)>> >>) }

RecordSequences ==
    {Arr(<<r>>) : r \in NamedRecords \cup OtherValues \cup {TensorDetection}}
    \cup {Arr(<<r, PositionRecord>>) : r \in UnknownRecords \cup OffsetRecords}

Payloads ==
    {Undef, Null, Arr(<<Str("message")>>)}
    \cup NormContainers \cup Level1 \cup Level2
    \cup NamedRecords \cup FlatMappings \cup RecordSequences
    \cup UNION {Wrapped(inner) :
            inner \in FlatMappings \cup FewContainers \cup {PositionRecord, Null}}

InitDeserialize ==
    /\ OutsideInit
    /\ pc = "start"
    /\ payload \in Payloads
    /\ normalized = Undef
    /\ result = Undef
    /\ target = EmptyObj
    /\ merged = <<>>
    /\ recordName = Undef
    /\ envelope = Undef

Deserialize ==
    /\ pc = "start"
    /\ result' = deserializeDataResponse(payload)
    /\ pc' = IF IsThrow(result') THEN "threw" ELSE "done"
    /\ UNCHANGED <<payload, normalized, target, merged, recordName, envelope, outside>>

NextDeserialize == Deserialize

SpecDeserialize == InitDeserialize /\ [][NextDeserialize]_vars

\* C1: deserializeDataResponse raises no error on any value of the generic
\* value model: it returns a snapshot or null, also for a tensor container
\* whose data length is no multiple of the element width of its dtype or
\* whose shape does not match the element count.
C1_NeverRaises ==
    /\ pc # "threw"
    /\ pc = "done" => (result = Null \/ IsObject(result))

---------------------------------------------------------------------------
(* C11: the slots that a record overwrites.                                *)

Slots ==
    {"position", "stats", "colorCorrection", "cameraOffset", "gpsOffset",
     "detections", "color", "depth"}

OverwritingKinds == {"Position", "Statistics", "ColorCorrection"}

SlotOf(kind) ==
    CASE kind = "Position" -> "position"
      [] kind = "Statistics" -> "stats"
      [] kind = "ColorCorrection" -> "colorCorrection"

DecodeOf(kind, entry) ==
    CASE kind = "Position" -> decodePosition(entry)
      [] kind = "Statistics" -> decodeStats(entry)
      [] kind = "ColorCorrection" -> decodeColorCorrection(entry)

\* a decoded value as a write: null writes nothing
AsWrite(decoded) == IF decoded = Null THEN Undef ELSE decoded

\* what a record of the kind itself puts into the slot, Undef when nothing
OwnWrite(kind, entry) ==
    IF IsNamed(entry) /\ NameOf(entry) = kind
    THEN AsWrite(DecodeOf(kind, entry)) ELSE Undef

\* what an AIRecord puts into the slot, Undef when nothing
CarriedWrite(kind, entry) ==
    IF IsNamed(entry) /\ NameOf(entry) = "AIRecord"
    THEN CASE kind = "Position" /\ ObjHas(entry, "position") ->
                 AsWrite(decodePosition(ObjGet(entry, "position")))
           [] kind = "Statistics" /\ ObjHas(entry, "stats") ->
                 AsWrite(decodeStats(ObjGet(entry, "stats")))
           [] OTHER -> Undef
    ELSE Undef

\* the value of the last element of writes that is not Undef
RECURSIVE LastWrite(_, _)
LastWrite(writes, i) ==
    IF i = 0 THEN Undef
    ELSE IF writes[i] # Undef THEN writes[i]
    ELSE LastWrite(writes, i - 1)

OwnWrites(kind, seq) == [i \in 1..Len(seq) |-> OwnWrite(kind, seq[i])]

\* what an element puts into the slot of the kind, Undef when nothing
WriteOf(kind, entry) ==
    IF IsNamed(entry) /\ NameOf(entry) = "AIRecord"
    THEN CarriedWrite(kind, entry) ELSE OwnWrite(kind, entry)

OrEarlier(write, earlier) == IF write # Undef THEN write ELSE earlier

\* the last write among the first i elements of seq, Undef when none
RECURSIVE LastWriteOf(_, _, _)
LastWriteOf(kind, seq, i) ==
    IF i = 0 THEN Undef
    ELSE OrEarlier(WriteOf(kind, seq[i]), LastWriteOf(kind, seq, i - 1))

\* the statement as it stands: only the records of the kind count
C11_Original ==
    AllNamed(merged) =>
        \A kind \in OverwritingKinds :
            ObjGet(target, SlotOf(kind)) = LastWrite(OwnWrites(kind, merged), Len(merged))

SlotIsLastWrite ==
    AllNamed(merged) =>
        \A kind \in OverwritingKinds :
            ObjGet(target, SlotOf(kind)) = LastWriteOf(kind, merged, Len(merged))

OverwritingTouchesOwnSlot ==
    \A kind \in OverwritingKinds :
        (/\ Len(merged') = Len(merged) + 1
         /\ IsNamed(merged'[Len(merged')])
         /\ NameOf(merged'[Len(merged')]) = kind)
        => \A slot \in Slots \ {SlotOf(kind)} :
              ObjGet(target', slot) = ObjGet(target, slot)

\* C11: after merging a sequence of named records, position, stats and
\* colorCorrection each hold what the last record that wrote the slot
\* decoded to, where the writers of position and stats are the Position
\* (Statistics) records and the AIRecords that carry a position (stats),
\* and the writers of colorCorrection are the ColorCorrection records that
\* decode to a value; merging a Position, Statistics or ColorCorrection
\* record changes no other slot.
C11_SlotOverwrite ==
    []SlotIsLastWrite /\ [][OverwritingTouchesOwnSlot]_vars

\* a second Position record has replaced the first, next to a filled slot
\* that it left alone
C11_Witness ==
    /\ Len(merged) = 3
    /\ NameOf(merged[1]) = "Position"
    /\ NameOf(merged[2]) = "Offset"
    /\ NameOf(merged[3]) = "Position"
    /\ merged[1] # merged[3]
    /\ ObjGet(target, "position") = decodePosition(merged[3])
    /\ ObjGet(target, "position") # decodePosition(merged[1])
    /\ Truthy(ObjGet(target, "cameraOffset"))

---------------------------------------------------------------------------
(* SpecMapping: buildDataResponse on a flat mapping without a "name" folds *)
(* its entries, one by one, into a fresh target with mergeKeyValue         *)
(* (data-response.ts:359-364).  merged holds the entries <<key, value>>    *)
(* taken so far; the keys of a mapping are distinct.                       *)

MaxEntries == 2

\* keys that no case of mergeKeyValue matches; the empty key is falsy and
\* gives no origin hint
HintKeys == {"gps", "GPS", "cameraUnit", "gpsCamera", "depthView", "other", ""}

HintedRecords ==
    { Named("Offset", << <<"x", Num(1)>>, <<"unit", Str("m")>> >>),
      Named("Offset", << <<"x", Num(2)>> >>),
      Named("Color", << <<"image",
            Obj(<< <<"width", Num(2)>>, <<"data", Bytes(<<1, 2, 7>>)>> >>)>> >>),
      Named("Image", << <<"width", Num(1)>>, <<"data", Bytes(<<7>>)>> >>) }

\* keys that spell a logical field, in the spellings of the switch of
\* mergeKeyValue and in other casings and conventions
SpelledKeys ==
    {"command", "COMMAND", "Message", "MESSAGE", "valid", "VALID",
     "camera_offset", "Camera_Offset", "gpsOffset", "GPSOffset",
     "ColorCorrection", "colorcorrection", "color", "COLOR", "depth",
     "Detections", "DETECTIONS", "position", "POSITION", "stats", "STATS"}

\* a value of the kind the key's field holds
SpelledValue(key) ==
    CASE key \in {"command", "COMMAND", "Message", "MESSAGE"} -> Str("go")
      [] key \in {"valid", "VALID"} -> Bool(TRUE)
      [] key \in {"camera_offset", "Camera_Offset", "gpsOffset", "GPSOffset"} ->
            Obj(<< <<"x", Num(1)>>, <<"unit", Str("m")>> >>)
      [] key \in {"ColorCorrection", "colorcorrection"} ->
            Obj(<< <<"s", Num(2)>> >>)
      [] key \in {"color", "COLOR", "depth"} ->
            Obj(<< <<"image",
                Obj(<< <<"width", Num(2)>>, <<"data", Bytes(<<1, 2, 7>>)>> >>)>> >>)
      [] key \in {"Detections", "DETECTIONS"} ->
            Arr(<< Obj(<< <<"id", Num(7)>> >>) >>)
      [] key \in {"position", "POSITION"} -> Obj(<< <<"x", Num(7)>> >>)
      [] OTHER -> Obj(<< <<"fps", Num(2)>> >>)

MappingEntries ==
    {<<key, value>> : key \in HintKeys, value \in HintedRecords}
        \cup {<<key, SpelledValue(key)>> : key \in SpelledKeys}

InitMapping ==
    /\ OutsideInit
    /\ pc = "entries"
    /\ payload = Undef
    /\ normalized = Undef
    /\ result = Undef
    /\ target = EmptyObj
    /\ merged = <<>>
    /\ recordName = Undef
    /\ envelope = Undef

MergeKeyValue ==
    /\ pc = "entries"
    /\ Len(merged) < MaxEntries
    /\ \E entry \in MappingEntries :
          /\ \A i \in 1..Len(merged) : merged[i][1] # entry[1]
          /\ Merged(entry, mergeKeyValue(target, entry[1], entry[2]))

ReturnMapping ==
    /\ pc = "entries"
    /\ pc' = "done"
    /\ result' = target
    /\ UNCHANGED <<payload, normalized, target, merged, recordName, envelope, outside>>

NextMapping == MergeKeyValue \/ ReturnMapping

SpecMapping == InitMapping /\ [][NextMapping]_vars

---------------------------------------------------------------------------
(* C12: routing by origin hint.                                            *)

\* the entry that the step has merged
Taken == merged'[Len(merged')]

TakesEntry(kind) ==
    /\ Len(merged') = Len(merged) + 1
    /\ Taken[1] \in HintKeys
    /\ NameOf(Taken[2]) = kind

HintHas(part) ==
    Taken[1] # "" /\ Includes(ToLowerCase(Taken[1]), part)

\* the step has put the value into the slot and left the other slots alone
RoutedTo(slot, value) ==
    /\ ObjGet(target', slot) = value
    /\ \A other \in Slots \ {slot} : ObjGet(target', other) = ObjGet(target, other)

ColorAndImageRouting ==
    /\ TakesEntry("Color") =>
          RoutedTo(IF HintHas("depth") THEN "depth" ELSE "color",
                   decodeColor(Taken[2]))
    /\ TakesEntry("Image") =>
          RoutedTo(IF HintHas("depth") THEN "depth" ELSE "color",
                   Obj(<< <<"image", decodeImage(Taken[2])>> >>))

\* the statement as it stands: "camera" in the hint decides for cameraOffset
C12_Original ==
    [][/\ TakesEntry("Offset") /\ HintHas("gps") =>
             RoutedTo("gpsOffset", decodeOffset(Taken[2]))
       /\ TakesEntry("Offset") /\ HintHas("camera") =>
             RoutedTo("cameraOffset", decodeOffset(Taken[2]))
       /\ ColorAndImageRouting]_vars

\* C12: a named record under an unmatched key of a flat mapping is merged
\* with that key as its origin hint: an Offset whose lower-cased hint
\* contains "gps" overwrites gpsOffset, one whose hint contains "camera" and
\* not "gps" overwrites cameraOffset; a Color or Image whose lower-cased
\* hint contains "depth" goes to depth, with any other hint or none to
\* color; no other slot changes.
C12_HintRouting ==
    [][/\ TakesEntry("Offset") /\ HintHas("gps") =>
             RoutedTo("gpsOffset", decodeOffset(Taken[2]))
       /\ TakesEntry("Offset") /\ HintHas("camera") /\ ~HintHas("gps") =>
             RoutedTo("cameraOffset", decodeOffset(Taken[2]))
       /\ ColorAndImageRouting]_vars

\* an Offset under "GPS" has replaced the one that came under "gps", and a
\* Color under "depthView" sits in depth
C12_Witness ==
    /\ Len(merged) = 2
    /\ merged[1][1] = "gps" /\ merged[2][1] = "GPS"
    /\ NameOf(merged[1][2]) = "Offset" /\ NameOf(merged[2][2]) = "Offset"
    /\ merged[1][2] # merged[2][2]
    /\ ObjGet(target, "gpsOffset") = decodeOffset(merged[2][2])
    /\ ObjGet(target, "cameraOffset") = Undef

---------------------------------------------------------------------------
(* SpecDecode: one of the ten record decoders is applied to a raw value,   *)
(* recordDecoders[kind](value), the value being any value at all: no       *)
(* mapping, an empty mapping, a mapping with or without the discriminator. *)

NonMappings == {Undef, Null, Num(7), Str("abc"), Bool(TRUE)}

\* raw values of a numeric field
NumberLike ==
    {Undef, Null, Num(0), Num(1), Num(2), Num(3), Num(0 - 1), NaN,
     <<"inf">>, <<"ninf">>, Str("1"), Str("2"), Str("abc"), Str("Infinity"),
     Bool(TRUE)}

\* raw values of a boolean field
BooleanLike ==
    {Undef, Null, Bool(TRUE), Bool(FALSE), Num(0), Num(2), Str("true"),
     Str("false"), Str("yes")}

PositionInputs ==
    {Obj(Opt("status", s) \o Opt("connected", c)) :
        s \in NumberLike, c \in BooleanLike}

\* the field of each kind that the inputs vary
NumericFieldOf(kind) ==
    CASE kind = "Position" -> "x"
      [] kind = "Offset" -> "x"
      [] kind = "Statistics" -> "fps"
      [] kind = "ColorCorrection" -> "h"
      [] kind = "Detection" -> "prob"
      [] kind = "ImageDetection" -> "width"
      [] kind = "MapDetection" -> "x"
      [] kind = "Image" -> "width"

OneFieldInputs(kind) ==
    {Obj(Opt(NumericFieldOf(kind), n)) : n \in NumberLike}

\* sequences and typed arrays as MapLocation coordinates
CoordinateInputs ==
    {Obj(<< <<"x", c>>, <<"y", Arr(<<Num(7)>>)>> >>) :
        c \in {Arr(<<Num(1), <<"inf">>, Str("2"), NaN>>),
               Typed("f32", <<Num(1), <<"inf">>, NaN>>),
               Typed("f32", <<>>)}}

\* mappings that spell the x of an Offset in several ways at once, each
\* spelling with its own number or with null
AliasInputs ==
    {Obj(Opt("offX", d) \o Opt("off_x", c) \o Opt("X", b) \o Opt("x", a)) :
        a \in {Undef, Null, Num(1)}, b \in {Undef, Null, Num(2)},
        c \in {Undef, Null, Num(3)}, d \in {Undef, Null, Num(7)}}

NestedInputs(kind) ==
    CASE kind = "Color" ->
            {Obj(<< <<"image", Obj(Opt("width", n))>> >>) : n \in NumberLike}
            \cup {Obj(<< <<"image", Num(7)>> >>)}
      [] kind = "AIRecord" ->
            {Obj(<< <<"position", Obj(Opt("x", n))>> >>) : n \in NumberLike}
            \cup {Obj(<< <<"position", Num(7)>> >>),
                  Obj(<< <<"detections", Arr(<<>>)>> >>)}
      [] kind = "Detection" ->
            {Obj(<< <<"map_location", Obj(<< <<"x", n>> >>)>> >>) :
                n \in {Num(1), <<"inf">>, Str("Infinity")}}
      [] kind = "MapDetection" -> CoordinateInputs
      [] kind = "Position" -> PositionInputs
      [] kind = "Offset" -> AliasInputs
      [] OTHER -> {}

\* a mapping with the discriminator in it, as decodeRecord passes it on
WithName(kind, value) == Obj(<< <<"name", Str(kind)>> >> \o ObjPairs(value))

InputsOf(kind) ==
    LET mappings == (IF kind \in {"Color", "AIRecord"} THEN {EmptyObj}
                     ELSE OneFieldInputs(kind)) \cup NestedInputs(kind)
    IN  NonMappings \cup {Arr(<<>>)} \cup mappings
        \cup {WithName(kind, value) : value \in mappings}

InitDecode ==
    /\ OutsideInit
    /\ pc = "raw"
    /\ \E kind \in KnownNames :
          /\ recordName = Str(kind)
          /\ payload \in InputsOf(kind)
    /\ normalized = Undef
    /\ result = Undef
    /\ target = Undef
    /\ merged = <<>>
    /\ envelope = Undef

DecodeValue ==
    /\ pc = "raw"
    /\ pc' = "value"
    /\ result' = recordDecoders(ToStr(recordName), payload)
    /\ UNCHANGED <<payload, normalized, target, merged, recordName, envelope, outside>>

NextDecode == DecodeValue

SpecDecode == InitDecode /\ [][NextDecode]_vars

---------------------------------------------------------------------------
(* C13: connected of a decoded Position.                                   *)

DecodedPosition ==
    pc = "value" /\ recordName = Str("Position") /\ result # Null

\* the explicit connected field of the input, coerced
ExplicitConnected == asBoolean(readField(resolveRecord(payload),
                                         <<"connected", "Connected">>))

\* bit 0 of ToInt32(status): an infinity converts to 0
StatusBit(status) == Tag(status) = "num" /\ status[2] % 2 = 1

\* C13: in every decoded Position, if status resolved to a number then
\* connected is ((status AND 1) = 1), whatever explicit connected field the
\* input has; if status resolved to nothing and the explicit connected field
\* coerces to a boolean, connected is that boolean; otherwise the Position
\* has no connected.
C13_Connected ==
    DecodedPosition =>
        IF ObjGet(result, "status") # Undef
        THEN ObjGet(result, "connected")
                = Bool(StatusBit(ObjGet(result, "status")))
        ELSE IF ExplicitConnected # Undef
             THEN ObjGet(result, "connected") = ExplicitConnected
             ELSE ~ObjHas(result, "connected")

\* status 2 wins over an explicit connected: true
C13_Witness ==
    /\ DecodedPosition
    /\ ObjGet(result, "status") = Num(2)
    /\ ExplicitConnected = Bool(TRUE)
    /\ ObjGet(result, "connected") = Bool(FALSE)

---------------------------------------------------------------------------
(* C14, C15: what a decoder returns.                                       *)

RECURSIVE HasTagged(_, _)
HasTagged(v, tags) ==
    CASE Tag(v) \in tags -> TRUE
      [] Tag(v) = "arr" ->
            \E i \in 1..Len(Elems(v)) : HasTagged(Elems(v)[i], tags)
      [] Tag(v) = "typed" /\ v[2] # "u8" ->
            \E i \in 1..Len(v[3]) : HasTagged(v[3][i], tags)
      [] Tag(v) = "obj" ->
            \E i \in 1..Len(ObjPairs(v)) : HasTagged(ObjPairs(v)[i][2], tags)
      [] OTHER -> FALSE

\* C14: every numeric field of a decoded record is a finite number or
\* absent, and every entry of a MapLocation sequence is a finite number,
\* whatever the input: infinities as numbers or as text, scalar coordinates.
C14_FiniteOrAbsent ==
    pc = "value" => ~HasTagged(result, {"nan", "inf", "ninf"})

\* the part of it that holds: no NaN comes out
C14_NeverNaN ==
    pc = "value" => ~HasTagged(result, {"nan"})

\* a mapping; a sequence or typed array is let through by resolveRecord too
MappingShaped(v) == IsObject(v)

AlwaysObjectKinds ==
    {"Position", "Offset", "Statistics", "Detection", "ImageDetection",
     "MapDetection", "Color", "Image"}

\* all of h, s and v resolve to nothing
NoCorrectionField ==
    \A keys \in {<<"h", "H">>, <<"s", "S">>, <<"v", "V">>} :
        asNumber(readField(resolveRecord(payload), keys)) = Undef

\* C15: a decoder returns null only for an input that is not mapping-shaped,
\* or, for ColorCorrection, when h, s and v are all absent, or, for AIRecord,
\* when nothing decoded; for the eight other kinds every mapping-shaped
\* input, the empty mapping included, decodes to a non-null object.
C15_NullOnlyWhen ==
    pc = "value" =>
        /\ result = Null =>
              \/ ~MappingShaped(payload)
              \/ recordName = Str("ColorCorrection") /\ NoCorrectionField
              \/ recordName = Str("AIRecord")
        /\ (ToStr(recordName) \in AlwaysObjectKinds /\ MappingShaped(payload))
              => (result # Null /\ IsObject(result))

\* the same statement with Color left out of the kinds
C15_ExceptColor ==
    (pc = "value" /\ recordName # Str("Color")) =>
        /\ result = Null =>
              \/ ~MappingShaped(payload)
              \/ recordName = Str("ColorCorrection") /\ NoCorrectionField
              \/ recordName = Str("AIRecord")
        /\ (ToStr(recordName) \in AlwaysObjectKinds /\ MappingShaped(payload))
              => (result # Null /\ IsObject(result))

---------------------------------------------------------------------------
(* SpecEncode: encodeRecord(kind, value) is called with a typed value and  *)
(* any discriminator.                                                      *)

\* discriminators that are none of the ten record kinds
UnsupportedNames ==
    {"Telemetry", "position"} \cup InheritedNoEffect \cup InheritedRaising

UnsupportedRecords ==
    {<<name, Obj(<< <<"x", Num(1)>> >>)>> : name \in UnsupportedNames}

InitEncode ==
    /\ OutsideInit
    /\ pc = "typed"
    /\ \E tv \in TypedRecords \cup UnsupportedRecords :
          recordName = Str(tv[1]) /\ payload = tv[2]
    /\ normalized = Undef
    /\ result = Undef
    /\ target = Undef
    /\ merged = <<>>
    /\ envelope = Undef

EncodeValue ==
    /\ pc = "typed"
    /\ envelope' = encodeRecord(ToStr(recordName), payload)
    /\ pc' = IF IsThrow(envelope') THEN "threw" ELSE "envelope"
    /\ UNCHANGED <<payload, normalized, result, target, merged, recordName, outside>>

NextEncode == EncodeValue

SpecEncode == InitEncode /\ [][NextEncode]_vars

---------------------------------------------------------------------------
(* C16: supported and unsupported discriminators.                          *)

Encoded == pc \in {"envelope", "threw"}

\* the explicit error of encodeRecord
UnsupportedError == Throw("Error")

CleanEnvelope ==
    /\ pc = "envelope"
    /\ ObjGet(envelope, "name") = recordName
    /\ ~HasTagged(envelope, {"undef"})

\* C16: encodeRecord(kind, value) raises the explicit unsupported-record
\* error exactly when kind is none of the ten known discriminators; for
\* each known kind it returns an envelope whose discriminator field equals
\* kind and that has no field whose value is absent.
C16_UnsupportedExactly ==
    Encoded =>
        /\ (envelope = UnsupportedError) <=> (ToStr(recordName) \notin KnownNames)
        /\ ToStr(recordName) \in KnownNames => CleanEnvelope

\* the same for the discriminators that Object.prototype does not have
C16_ExceptInherited ==
    (Encoded /\ ToStr(recordName)
                  \notin InheritedNoEffect \cup InheritedRaising) =>
        /\ (envelope = UnsupportedError) <=> (ToStr(recordName) \notin KnownNames)
        /\ ToStr(recordName) \in KnownNames => CleanEnvelope

---------------------------------------------------------------------------
(* C17: the fields of an envelope.                                         *)

\* the on-wire fields of a kind: <<wire name, field of the typed value,
\* zero value>>; Undef where the zero value is a sub-record
WireFields(kind) ==
    CASE kind = "Position" ->
            {<<"frame_count", "", Num(0)>>, <<"status", "status", Num(0)>>,
             <<"x", "x", Num(0)>>, <<"y", "y", Num(0)>>, <<"z", "z", Num(0)>>,
             <<"azimuth", "azimuth", Num(0)>>,
             <<"elevation", "elevation", Num(0)>>,
             <<"rotation", "rotation", Num(0)>>}
      [] kind = "Offset" ->
            {<<"off_x", "off_x", Num(0)>>, <<"off_y", "off_y", Num(0)>>,
             <<"off_z", "off_z", Num(0)>>, <<"unit", "unit", Str("")>>,
             <<"heading_offset", "heading_offset", Num(0)>>,
             <<"elevation_offset", "elevation_offset", Num(0)>>}
      [] kind = "Statistics" ->
            {<<"fps", "fps", Num(0)>>, <<"infer_time", "invoke_time", Num(0)>>,
             <<"video_width", "video_width", Num(0)>>,
             <<"video_height", "video_height", Num(0)>>,
             <<"run_time", "run_time", Num(0)>>,
             <<"gps_connected", "gps_connected", Bool(FALSE)>>,
             <<"cpu_temp", "cpu_temp", Num(0)>>}
      [] kind = "ColorCorrection" ->
            {<<"h", "h", Num(0)>>, <<"s", "s", Num(0)>>, <<"v", "v", Num(0)>>}
      [] kind = "Detection" ->
            {<<"class_id", "class_id", Num(0)>>,
             <<"probability", "prob", Num(0)>>, <<"depth", "depth", Num(0)>>,
             <<"screen_location", "screen_location",
               Named("ImageDetection",
                     << <<"x", Num(0)>>, <<"y", Num(0)>>, <<"width", Num(0)>>,
                        <<"height", Num(0)>> >>)>>,
             <<"map_location", "map_location", Undef>>}
      [] kind = "ImageDetection" ->
            {<<"x", "x", Num(0)>>, <<"y", "y", Num(0)>>,
             <<"width", "width", Num(0)>>, <<"height", "height", Num(0)>>}
      [] kind = "MapDetection" ->
            {<<"x", "x", Undef>>, <<"y", "y", Undef>>, <<"z", "z", Undef>>}
      [] kind = "AIRecord" ->
            {<<"position", "position", Undef>>,
             <<"detections", "detections", Arr(<<>>)>>,
             <<"stats", "stats", Undef>>, <<"color", "color", Undef>>,
             <<"depth", "depth", Undef>>}
      [] kind = "Color" -> {<<"image", "image", Undef>>}
      [] kind = "Image" ->
            {<<"valid", "valid", Bool(FALSE)>>, <<"width", "width", Num(0)>>,
             <<"height", "height", Num(0)>>, <<"data", "data", Bytes(<<>>)>>}

\* the envelope has the field, with its zero value if the typed value lacks it
Carries(field) ==
    /\ ObjHas(envelope, field[1])
    /\ (field[3] # Undef /\ IsNullish(ObjGet(payload, field[2])))
          => ObjGet(envelope, field[1]) = field[3]

\* the sub-records that the encoders leave out when the typed value lacks them
OmittedWhenAbsent ==
    {<<"Color", "image">>, <<"AIRecord", "stats">>, <<"AIRecord", "color">>,
     <<"AIRecord", "depth">>}

\* C17: encoding is never partial: the envelope of every kind and typed
\* value has every on-wire field of the kind, an absent optional field with
\* its zero value (0, empty text, false, no bytes), a Detection without
\* locations with a zero ScreenLocation and an empty MapLocation, and a
\* Color without image and an AIRecord without stats, color or depth still
\* with those fields.
C17_NeverPartial ==
    pc = "envelope" /\ ToStr(recordName) \in KnownNames =>
        \A field \in WireFields(ToStr(recordName)) : Carries(field)

\* the same for all fields but the four omitted ones
C17_ExceptOmitted ==
    pc = "envelope" /\ ToStr(recordName) \in KnownNames =>
        \A field \in WireFields(ToStr(recordName)) :
            <<ToStr(recordName), field[1]>> \notin OmittedWhenAbsent
                => Carries(field)

---------------------------------------------------------------------------
(* C18: the coordinates of an encoded MapLocation.                         *)

\* the length of a coordinate sequence of a typed MapLocation, 0 if absent
CoordinateCount(location, axis) ==
    IF IsArray(ObjGet(location, axis)) THEN Len(Elems(ObjGet(location, axis)))
    ELSE 0

\* the field is a 32-bit float tensor container of n elements
IsFloatContainer(field, n) ==
    /\ IsObject(field)
    /\ ObjGet(field, "nd") = Bool(TRUE)
    /\ ObjGet(field, "type") = Str("<f4")
    /\ ObjGet(field, "shape") = Arr(<<Num(n)>>)
    /\ Tag(ObjGet(field, "data")) = "typed"
    /\ ObjGet(field, "data")[2] = "u8"
    /\ Len(ObjGet(field, "data")[3]) = 4 * n

EncodedCoordinates(wire, location) ==
    \A axis \in {"x", "y", "z"} :
        /\ ObjHas(wire, axis)
        /\ IsFloatContainer(ObjGet(wire, axis), CoordinateCount(location, axis))

\* C18: each of x, y, z of a MapLocation is encoded as a tensor container
\* with isMultiDimensional true, the 32-bit float dtype tag, shape [n] and
\* 4 * n data bytes, n the length of the sequence; an empty or absent
\* sequence gives a container with shape [0] and no data bytes, never an
\* absent field.  The same holds for the map_location inside a Detection.
C18_CoordinateContainers ==
    /\ (pc = "envelope" /\ recordName = Str("MapDetection"))
          => EncodedCoordinates(envelope, payload)
    /\ (pc = "envelope" /\ recordName = Str("Detection"))
          => EncodedCoordinates(ObjGet(envelope, "map_location"),
                 OrElse(ObjGet(payload, "map_location"), EmptyObj))

\* x of two entries is encoded in 8 bytes next to an absent y and z
C18_Witness ==
    /\ pc = "envelope"
    /\ recordName = Str("MapDetection")
    /\ CoordinateCount(payload, "x") = 2
    /\ ~ObjHas(payload, "y")
    /\ Len(ObjGet(ObjGet(envelope, "x"), "data")[3]) = 8
    /\ ObjGet(ObjGet(envelope, "y"), "shape") = Arr(<<Num(0)>>)
    /\ ObjGet(ObjGet(envelope, "z"), "data") = Bytes(<<>>)

---------------------------------------------------------------------------
(* SpecUnwrap: unwrapSocketMessagePayload is applied to a received value.  *)

\* what a received sequence is made of: tags, other values, envelopes
UnwrapElements ==
    { Str("message"), Str("MESSAGE"), Str("update"), Num(1),
      Obj(<< <<"x", Num(1)>> >>),
      Arr(<<Str("Message"), Num(7)>>), Arr(<<Str("message")>>), Arr(<<>>) }

RECURSIVE SeqsUpTo(_, _)
SeqsUpTo(elements, n) ==
    IF n = 0 THEN {<<>>}
    ELSE SeqsUpTo(elements, n - 1)
         \cup {Append(s, e) : s \in SeqsUpTo(elements, n - 1), e \in elements}

UnwrapInputs ==
    {Null, Undef, Num(1), Str("message"), Obj(<< <<"x", Num(1)>> >>)}
    \cup {Arr(s) : s \in SeqsUpTo(UnwrapElements, MaxSeq)}

InitUnwrap ==
    /\ OutsideInit
    /\ pc = "wrapped"
    /\ payload \in UnwrapInputs
    /\ normalized = Undef
    /\ result = Undef
    /\ target = Undef
    /\ merged = <<>>
    /\ recordName = Undef
    /\ envelope = Undef

Unwrap ==
    /\ pc = "wrapped"
    /\ pc' = "unwrapped"
    /\ result' = unwrapSocketMessagePayload(payload)
    /\ UNCHANGED <<payload, normalized, target, merged, recordName, envelope, outside>>

NextUnwrap == Unwrap

SpecUnwrap == InitUnwrap /\ [][NextUnwrap]_vars

---------------------------------------------------------------------------
(* C19: envelope unwrapping.                                               *)

\* a sequence whose first element is the text "message" in any case
IsEnvelope(v) ==
    /\ IsArray(v)
    /\ Len(Elems(v)) > 0
    /\ Elems(v)[1] \in {Str("message"), Str("Message"), Str("MESSAGE")}

\* an envelope without its tag: nothing, the one element, or the elements
Trailing(v) ==
    CASE Len(Elems(v)) = 1 -> Null
      [] Len(Elems(v)) = 2 -> Elems(v)[2]
      [] OTHER -> Arr(Tail(Elems(v)))

RECURSIVE Unwound(_)
Unwound(v) == IF IsEnvelope(v) THEN Unwound(Trailing(v)) ELSE v

\* the statement as it stands: one envelope is taken off
C19_Original ==
    pc = "unwrapped" =>
        result = IF IsEnvelope(payload) THEN Trailing(payload) ELSE payload

\* C19: a sequence whose first element is text equal to "message" ignoring
\* case unwraps to null when nothing trails the tag, and otherwise to its
\* single trailing element, or to the sequence of its trailing elements
\* when there are two or more, and what it unwraps to is unwrapped again in
\* the same way until it is no such sequence; a value that is no sequence,
\* an empty sequence, or a sequence whose first element is not that tag is
\* returned unchanged.
C19_UnwrapRepeated ==
    pc = "unwrapped" => /\ result = Unwound(payload)
                        /\ ~IsEnvelope(result)
                        /\ ~IsEnvelope(payload) => result = payload

\* an envelope inside an envelope: both are taken off
C19_Witness ==
    /\ pc = "unwrapped"
    /\ payload = Arr(<<Str("message"), Arr(<<Str("Message"), Num(7)>>)>>)
    /\ result = Num(7)

---------------------------------------------------------------------------
(* SpecCoerce: asNumber or asBoolean is applied to a raw value.            *)

\* the number 3.5, a double kept by its bit pattern
ThreeAndAHalf == <<"f64", <<0, 0, 0, 0, 0, 0, 12, 64>> >>

ScalarTexts ==
    {"", "0", "1", "2", "7", "-1", "3.5", "abc", "true", "false", "TRUE",
     "True", "False", " true ", " False", "0 ", "yes", "no", "on", "Infinity",
     "-Infinity"}

ScalarInputs ==
    {Undef, Null, Bool(TRUE), Bool(FALSE), NaN, <<"inf">>, <<"ninf">>,
     ThreeAndAHalf}
    \cup {Num(n) : n \in {0, 1, 2, 7, 0 - 1}}
    \cup {Str(s) : s \in ScalarTexts}
    \cup {Arr(<<>>), Arr(<<Num(2)>>), Arr(<<Str("7"), Num(1)>>),
          Arr(<<Arr(<<Num(1)>>)>>), Arr(<<NaN>>), Arr(<<Bool(TRUE)>>),
          Typed("f32", <<>>), Typed("f32", <<Num(1), Num(2)>>),
          Typed("f32", <<NaN>>), Bytes(<<7>>),
          EmptyObj, Obj(<< <<"x", Num(1)>> >>)}

InitCoerce ==
    /\ OutsideInit
    /\ pc = "scalar"
    /\ payload \in ScalarInputs
    /\ normalized = Undef
    /\ result = Undef
    /\ target = Undef
    /\ merged = <<>>
    /\ recordName = Undef
    /\ envelope = Undef

AsNumber ==
    /\ pc = "scalar"
    /\ pc' = "number"
    /\ result' = asNumber(payload)
    /\ UNCHANGED <<payload, normalized, target, merged, recordName, envelope, outside>>

AsBoolean ==
    /\ pc = "scalar"
    /\ pc' = "boolean"
    /\ result' = asBoolean(payload)
    /\ UNCHANGED <<payload, normalized, target, merged, recordName, envelope, outside>>

NextCoerce == AsNumber \/ AsBoolean

SpecCoerce == InitCoerce /\ [][NextCoerce]_vars

---------------------------------------------------------------------------
(* C20: scalar coercion.                                                   *)

\* the texts of the model that denote a number, with the number
Denoted ==
    [s \in {"", "0", "0 ", "1", "2", "7", "-1", "3.5", "Infinity", "-Infinity"} |->
        CASE s \in {"", "0", "0 "} -> Num(0)
          [] s = "1" -> Num(1)
          [] s = "2" -> Num(2)
          [] s = "7" -> Num(7)
          [] s = "-1" -> Num(0 - 1)
          [] s = "3.5" -> ThreeAndAHalf
          [] s = "Infinity" -> <<"inf">>
          [] s = "-Infinity" -> <<"ninf">>]

NumberCoercion ==
    pc = "number" =>
        /\ (IsNumber(payload) /\ payload # NaN) => result = payload
        /\ payload = NaN => result = Undef
        /\ Tag(payload) = "str" =>
              result = IF payload[2] \in DOMAIN Denoted
                       THEN Denoted[payload[2]] ELSE Undef

BooleanOfNonText ==
    pc = "boolean" =>
        /\ Tag(payload) = "bool" => result = payload
        /\ (IsNumber(payload) /\ payload # NaN) => result = Bool(payload # Num(0))
        /\ (Tag(payload) \notin {"bool", "str"} /\ ~IsNumber(payload))
              => result = Undef

\* the statement as it stands: of the texts only "true" and "false" coerce
C20_Original ==
    /\ NumberCoercion
    /\ BooleanOfNonText
    /\ (pc = "boolean" /\ Tag(payload) = "str") =>
          result = CASE payload[2] = "true" -> Bool(TRUE)
                     [] payload[2] = "false" -> Bool(FALSE)
                     [] OTHER -> Undef

\* texts that read true, and false, once blanks around them are dropped and
\* the case is ignored
TrueTexts == {"true", "TRUE", "True", " true ", "1"}
FalseTexts == {"false", "False", " False", "0", "0 "}

\* C20: asNumber returns the number for a non-NaN number and for text that
\* parses as a number ("3.5" gives 3.5), and nothing for unparsable text
\* and for NaN; asBoolean returns the boolean itself, true for a non-zero
\* number and false for 0, nothing for NaN; for text, with the blanks
\* around it dropped and its case ignored, true for "true" and "1", false
\* for "false" and "0"; and nothing for any other input.
C20_ScalarCoercion ==
    /\ NumberCoercion
    /\ BooleanOfNonText
    /\ (pc = "boolean" /\ payload = NaN) => result = Undef
    /\ (pc = "boolean" /\ Tag(payload) = "str") =>
          result = CASE payload[2] \in TrueTexts -> Bool(TRUE)
                     [] payload[2] \in FalseTexts -> Bool(FALSE)
                     [] OTHER -> Undef

\* the text "1" has been coerced to true
C20_Witness ==
    /\ pc = "boolean"
    /\ payload = Str("1")
    /\ result = Bool(TRUE)

\* the text "3.5" has been coerced to the number 3.5
C20_NumberReached ==
    /\ pc = "number"
    /\ payload = Str("3.5")
    /\ result = ThreeAndAHalf

---------------------------------------------------------------------------
(* C21: the aliases of a field.                                            *)

\* the value under the first of the four spellings that is a key of the input
FirstSpelling(data) ==
    IF ObjHas(data, "x") THEN ObjGet(data, "x")
    ELSE IF ObjHas(data, "X") THEN ObjGet(data, "X")
    ELSE IF ObjHas(data, "off_x") THEN ObjGet(data, "off_x")
    ELSE IF ObjHas(data, "offX") THEN ObjGet(data, "offX")
    ELSE Undef

\* a number stays, null and undefined coerce to nothing
NumberOrNothing(v) == IF Tag(v) = "num" THEN v ELSE Undef

DecodedAliases ==
    /\ pc = "value"
    /\ recordName = Str("Offset")
    /\ IsObject(payload)
    /\ \A i \in 1..Len(ObjPairs(payload)) :
          ObjPairs(payload)[i][2] = Null \/ Tag(ObjPairs(payload)[i][2]) = "num"
             \/ ObjPairs(payload)[i][1] = "name"

\* C21: the x of a decoded Offset is the value of the first of "x", "X",
\* "off_x", "offX", in this order, that is a key of the input mapping; the
\* later spellings are ignored, also when that first one holds a value that
\* coerces to nothing.
C21_FirstAliasWins ==
    DecodedAliases =>
        ObjGet(result, "off_x") = NumberOrNothing(FirstSpelling(payload))

\* "X" holds null and "off_x" a number: the decoded x is absent
C21_Witness ==
    /\ DecodedAliases
    /\ ~ObjHas(payload, "x")
    /\ ObjGet(payload, "X") = Null /\ ObjHas(payload, "X")
    /\ ObjGet(payload, "off_x") = Num(3)
    /\ ObjGet(result, "off_x") = Undef

---------------------------------------------------------------------------
(* C22: the keys of a flat mapping.                                        *)

\* the logical field a key names when casing and the snake, camel or Pascal
\* convention are left out of account; "" when it names none
FieldOf(key) ==
    CASE key \in {"command", "Command", "COMMAND",
                  "message", "Message", "MESSAGE"} -> "command"
      [] key \in {"valid", "Valid", "VALID"} -> "valid"
      [] key \in {"camera_offset", "Camera_Offset", "cameraOffset",
                  "CameraOffset"} -> "cameraOffset"
      [] key \in {"gps_offset", "gpsOffset", "GpsOffset", "GPSOffset"} ->
            "gpsOffset"
      [] key \in {"color_correction", "colorCorrection", "ColorCorrection",
                  "colorcorrection"} -> "colorCorrection"
      [] key \in {"color", "Color", "COLOR"} -> "color"
      [] key \in {"depth", "Depth", "DEPTH"} -> "depth"
      [] key \in {"detections", "Detections", "DETECTIONS"} -> "detections"
      [] key \in {"position", "Position", "POSITION"} -> "position"
      [] key \in {"stats", "Stats", "STATS"} -> "stats"
      [] OTHER -> ""

\* the decode of a value for the slot of a field
DecodeFor(field, value) ==
    CASE field = "command" -> value
      [] field = "valid" -> asBoolean(value)
      [] field \in {"cameraOffset", "gpsOffset"} -> decodeOffset(value)
      [] field = "colorCorrection" -> decodeColorCorrection(value)
      [] field \in {"color", "depth"} -> decodeColor(value)
      [] field = "detections" -> decodeDetections(value)
      [] field = "position" -> decodePosition(value)
      [] OTHER -> decodeStats(value)

TakesKey(keys) ==
    /\ Len(merged') = Len(merged) + 1
    /\ Taken[1] \in keys

Populates ==
    RoutedTo(FieldOf(Taken[1]), DecodeFor(FieldOf(Taken[1]), Taken[2]))

\* C22: a key of a flat mapping that spells a logical field in any casing
\* and in the snake, camel or Pascal convention populates the slot of that
\* field with the decode of the key's value.
C22_AnySpelling == [][TakesKey(SpelledKeys) => Populates]_vars

\* the spellings of the switch
ListedSpellings ==
    {"Command", "command", "Message", "message", "Valid", "valid",
     "CameraOffset", "cameraOffset", "camera_offset",
     "GpsOffset", "gpsOffset", "gps_offset",
     "ColorCorrection", "colorCorrection", "color_correction",
     "Color", "color", "Depth", "depth", "Detections", "detections",
     "Position", "position", "Stats", "stats"}

\* the same for the spellings the switch lists
C22_ListedSpellings ==
    [][TakesKey(SpelledKeys \cap ListedSpellings) => Populates]_vars

\* a key in another spelling changes no slot
C22_OtherSpellings ==
    [][TakesKey(SpelledKeys \ ListedSpellings) => target' = target]_vars

---------------------------------------------------------------------------
(* SpecPatch: the module patches Decoder.prototype.decodeBinary when it is *)
(* loaded, and the decoder then reads binary values through what is        *)
(* installed there.                                                        *)

MaxBinaryLen == 3

\* the bytes of the letters x, y, n
BinaryBytes == {120, 121, 110}

CharOf(byte) ==
    CASE byte = 120 -> "x" [] byte = 121 -> "y" [] OTHER -> "n"

(* bytesToUtf8, data-response.ts:1237 (letters of one byte each, which     *)
(* TextDecoder and the String.fromCharCode loop turn into the same text)   *)
RECURSIVE bytesToUtf8(_)
bytesToUtf8(bytes) ==
    IF Len(bytes) = 0 THEN ""
    ELSE CharOf(Head(bytes)) \o bytesToUtf8(Tail(bytes))

(* what the function installed at decodeBinary returns for the bytes read: *)
(* the original gives the byte array, and each patchedDecodeBinary around  *)
(* it (data-response.ts:214-230) turns a byte array in key position into   *)
(* text                                                                    *)
RECURSIVE decodeBinaryThrough(_, _, _)
decodeBinaryThrough(wrappers, bytes, isMapKey) ==
    IF wrappers = 0 THEN Bytes(bytes)
    ELSE LET value == decodeBinaryThrough(wrappers - 1, bytes, isMapKey)
         IN  IF isMapKey /\ Tag(value) = "typed" /\ value[2] = "u8"
             THEN Str(bytesToUtf8(value[3]))
             ELSE value

\* the patch without its guard
patchAlways(patched, installed) == <<TRUE, installed + 1>>

(* patchDecoderForBinaryKeys, data-response.ts:202: the new value of the   *)
(* flag and of the installed function                                      *)
patchDecoderForBinaryKeys(patched, installed) ==
    IF patched THEN <<patched, installed>>
    ELSE <<TRUE, installed + 1>>

InitPatch ==
    /\ pc = "binary"
    /\ \E n \in 0..MaxBinaryLen : \E bytes \in [1..n -> BinaryBytes] :
          payload = bytes
    /\ stateIsMapKey \in BOOLEAN
    /\ decoderPatched = FALSE
    /\ decodeBinary = 0
    /\ NoService
    /\ NoMedia
    /\ normalized = Undef
    /\ result = Undef
    /\ target = Undef
    /\ merged = <<>>
    /\ recordName = Undef
    /\ envelope = Undef

\* a call of patchDecoderForBinaryKeys: the one of the module's load, or a
\* later one; the function has no await, so a call runs as one step
PatchDecoder ==
    /\ decoderPatched' = patchDecoderForBinaryKeys(decoderPatched, decodeBinary)[1]
    /\ decodeBinary' = patchDecoderForBinaryKeys(decoderPatched, decodeBinary)[2]
    /\ UNCHANGED <<codec, stateIsMapKey, service, media>>

\* the decoder reads a binary value
DecodeBinary ==
    /\ pc = "binary"
    /\ pc' = "read"
    /\ result' = decodeBinaryThrough(decodeBinary, payload, stateIsMapKey)
    /\ UNCHANGED <<payload, normalized, target, merged, recordName, envelope,
                   decoderPatched, decodeBinary, stateIsMapKey, service, media>>

NextPatch == PatchDecoder \/ DecodeBinary

SpecPatch == InitPatch /\ [][NextPatch]_vars

\* C23: however often patchDecoderForBinaryKeys is called, decodeBinary is
\* the original until the first call and one wrapper around the original
\* from then on, never a wrapper around a wrapper; and the guard flag, once
\* set, is never cleared.
C23_PatchedOnce ==
    /\ [](decodeBinary = IF decoderPatched THEN 1 ELSE 0)
    /\ [][decoderPatched => decoderPatched']_vars

\* a key has been read as text through the single wrapper
C23_Witness ==
    /\ decoderPatched
    /\ decodeBinary = 1
    /\ pc = "read"
    /\ payload = <<120, 121>>
    /\ result = Str("xy")

---------------------------------------------------------------------------
(* C24: null and non-null results of deserializeDataResponse.              *)

Deserialized == pc \in {"done", "threw"}

\* an envelope with no trailing element
BareEnvelope(v) ==
    /\ IsArray(v)
    /\ Len(Elems(v)) = 1
    /\ Tag(Elems(v)[1]) = "str"
    /\ Elems(v)[1][2] \in {"message", "Message", "MESSAGE"}

\* the payload unwraps and normalizes to a mapping or a sequence
NormalizesToContainer(v) ==
    /\ ~IsNullish(v)
    /\ Tag(normalize(unwrapSocketMessagePayload(v))) \in {"obj", "arr"}

NullForNothing ==
    Deserialized /\ (IsNullish(payload) \/ BareEnvelope(payload)) =>
        result = Null

\* C24: deserializeDataResponse returns null for a null payload and for an
\* envelope with no trailing element, and a snapshot that is not null for
\* every payload that unwraps and normalizes to a mapping or a sequence,
\* whether or not any of its elements or keys is recognized.
C24_NullOrSnapshot ==
    /\ NullForNothing
    /\ Deserialized /\ NormalizesToContainer(payload) => IsObject(result)

\* the same, apart from the calls that raise
C24_UnlessRaised ==
    /\ NullForNothing
    /\ pc = "done" /\ NormalizesToContainer(payload) => IsObject(result)

---------------------------------------------------------------------------
(* SpecFrame: buildDataResponse folds a sequence of named records and flat *)
(* mappings; the records are of every kind, with the ones that decode to   *)
(* nothing among them.                                                     *)

MaxFrame == 3

ImageMapping ==
    Obj(<< <<"width", Num(2)>>, <<"data", Bytes(<<1, 2, 7>>)>> >>)

\* position is null, detections are empty and depth has no image: of the
\* five fields only color decodes to something
AIRecordColorOnly ==
    Named("AIRecord",
          << <<"position", Null>>,
             <<"detections", Arr(<<>>)>>,
             <<"color", Obj(<< <<"image", ImageMapping>> >>)>>,
             <<"depth", EmptyObj>> >>)

AIRecordNothing == Named("AIRecord", << <<"detections", Arr(<<>>)>> >>)

FrameRecords ==
    { Named("Position", << <<"x", Num(7)>> >>),
      Named("Offset", << <<"x", Num(1)>>, <<"unit", Str("m")>> >>),
      Named("Statistics", << <<"fps", Num(7)>> >>),
      Named("ColorCorrection", << <<"h", Num(1)>> >>),
      Named("Detection", << <<"class_id", Num(2)>>, <<"prob", Num(1)>> >>),
      Named("Color", << <<"image", ImageMapping>> >>),
      AIRecordWithDetections, AIRecordStatsOnly, AIRecordColorOnly,
      AIRecordNothing,
      Named("ImageDetection", << <<"x", Num(1)>> >>),
      Named("MapDetection", << <<"x", Arr(<<Num(1)>>)>> >>),
      Named("ColorCorrection", <<>>),
      Named("Color", <<>>) }

\* a flat mapping among the elements fills command and valid
FrameMappings ==
    { Obj(<< <<"command", Str("go")>>, <<"valid", Bool(TRUE)>> >>) }

InitFrame ==
    /\ OutsideInit
    /\ pc = "frame"
    /\ payload = Undef
    /\ normalized = Undef
    /\ result = Undef
    /\ target = EmptyObj
    /\ merged = <<>>
    /\ recordName = Undef
    /\ envelope = Undef

MergeFrameRecord ==
    /\ pc = "frame"
    /\ Len(merged) < MaxFrame
    /\ \E entry \in FrameRecords :
          Merged(entry, mergeRecord(target, entry, Undef))

MergeFrameValue ==
    /\ pc = "frame"
    /\ Len(merged) < MaxFrame
    /\ \E entry \in FrameMappings :
          Merged(entry, mergeValue(target, entry, Undef))

NextFrame == MergeFrameRecord \/ MergeFrameValue

SpecFrame == InitFrame /\ [][NextFrame]_vars

---------------------------------------------------------------------------
(* C25: the partial snapshot of an AIRecord and its merge.                 *)

AllSlots == Slots \cup {"command", "valid"}

PartialFields == {"position", "detections", "stats", "color", "depth"}

TakenRecord == merged'[Len(merged')]

TakesRecord(kinds) ==
    /\ Len(merged') = Len(merged) + 1
    /\ IsNamed(TakenRecord)
    /\ NameOf(TakenRecord) \in kinds

\* the decode of a field of an AIRecord
FieldDecode(record, field) ==
    CASE field = "position" -> decodePosition(ObjGet(record, field))
      [] field = "detections" -> decodeDetections(ObjGet(record, field))
      [] field = "stats" -> decodeStats(ObjGet(record, field))
      [] OTHER -> decodeColor(ObjGet(record, field))

\* the fields that are present and decode to something
Decoding(record) ==
    {field \in PartialFields :
        /\ ObjHas(record, field)
        /\ FieldDecode(record, field) \notin {Null, Arr(<<>>)}}

PartialIsExact(record, partial) ==
    IF Decoding(record) = {} THEN partial = Null
    ELSE /\ IsObject(partial)
         /\ \A field \in PartialFields :
               /\ ObjHas(partial, field) <=> field \in Decoding(record)
               /\ field \in Decoding(record) =>
                     ObjGet(partial, field) = FieldDecode(record, field)
         /\ Len(ObjPairs(partial)) = Cardinality(Decoding(record))

OverwritesPartial(record) ==
    \A slot \in AllSlots :
        ObjGet(target', slot) =
            IF slot \in Decoding(record) THEN FieldDecode(record, slot)
            ELSE ObjGet(target, slot)

\* C25: the partial snapshot decoded from an AIRecord holds exactly those of
\* position, detections, stats, color and depth that are present in the
\* record and decode to a value that is not null (for detections: not
\* empty), and is null when there is none; merging the AIRecord overwrites
\* exactly the slots of the partial and leaves every other slot as it was.
C25_PartialMerge ==
    [][TakesRecord({"AIRecord"}) =>
          /\ PartialIsExact(TakenRecord, decodeAIRecord(TakenRecord))
          /\ OverwritesPartial(TakenRecord)]_vars

\* after a Position, a Statistics and the AIRecord of which only color
\* decodes: color is filled, position and stats are the earlier ones
C25_Witness ==
    /\ Len(merged) = 3
    /\ merged[3] = AIRecordColorOnly
    /\ ObjGet(target, "position") = decodePosition(merged[1])
    /\ NameOf(merged[1]) = "Position"
    /\ NameOf(merged[2]) = "Statistics"
    /\ ObjGet(target, "stats") = decodeStats(merged[2])
    /\ ObjHas(target, "color")
    /\ ~ObjHas(target, "depth")
    /\ ~ObjHas(target, "detections")

---------------------------------------------------------------------------
(* C26: named records without effect.                                      *)

DecodesToNull(record) ==
    /\ NameOf(record) \in KnownNames
    /\ recordDecoders(NameOf(record), record) = Null

\* C26: merging a named record with the discriminator ImageDetection or
\* MapDetection, or any named record whose decoder returns null, leaves
\* every slot of the snapshot as it was: a slot filled by an earlier element
\* is not cleared or set to null.
C26_NoEffect ==
    [][(\/ TakesRecord({"ImageDetection", "MapDetection"})
        \/ TakesRecord(KnownNames) /\ DecodesToNull(TakenRecord)) =>
          /\ target' = target
          /\ \A slot \in AllSlots : ObjGet(target', slot) = ObjGet(target, slot)]_vars

\* a ColorCorrection, then a MapDetection and an empty ColorCorrection: the
\* correction is still there
C26_Witness ==
    /\ Len(merged) = 3
    /\ merged[1] = Named("ColorCorrection", << <<"h", Num(1)>> >>)
    /\ NameOf(merged[2]) = "MapDetection"
    /\ merged[3] = Named("ColorCorrection", <<>>)
    /\ ObjGet(target, "colorCorrection") = decodeColorCorrection(merged[1])
    /\ ObjGet(target, "colorCorrection") # Null

---------------------------------------------------------------------------
(* SpecService: a DataService after its construction.  The caller calls    *)
(* start, stop, restart and createSocketConnection and sets command; the   *)
(* sockets raise connect, disconnect and message; the interval fires.      *)
(* A socket is "connecting" (also when it has lost its connection and      *)
(* tries again), "connected", or "closed" (disconnected for good).         *)
(* pc is the operation that ran last.                                      *)

MaxSockets == 3

\* setInterval returns an id that no running interval has
FreshTimer(tm, run) ==
    CHOOSE id \in 1..(Cardinality(run) + 2) :
        /\ id \notin run \cup {tm}
        /\ \A lower \in 1..(id - 1) : lower \in run \cup {tm}

\* startPolling without the clearInterval
startPollingNoClear(tm, run) ==
    <<FreshTimer(tm, run), run \cup {FreshTimer(tm, run)}>>

(* startPolling, data-service.ts:87: the new timer field and the running   *)
(* intervals                                                               *)
startPolling(tm, run) ==
    <<FreshTimer(tm, run), (run \ {tm}) \cup {FreshTimer(tm, run)}>>

(* stopPolling, data-service.ts:99 *)
stopPolling(tm, run) ==
    IF tm # 0 THEN <<0, run \ {tm}>> ELSE <<tm, run>>

\* this.socket?.connected
SocketConnected == socket # 0 /\ sockets[socket] = "connected"

\* socket.disconnect() of socket.io: the socket is closed for good; when it
\* was connected its disconnect handler runs within the call
\* (data-service.ts:126-129), otherwise no handler runs
Disconnected(s, all) == [all EXCEPT ![s] = "closed"]

\* payloads of the message event; the texts of lib/commands are written by
\* the names of its constants
MessagePayloads ==
    { Null,
      Obj(<< <<"command", Str("gGetCameraOffset")>>,
             <<"cameraOffset", Obj(<< <<"x", Num(1)>> >>)>> >>),
      Obj(<< <<"command", Str("gGetGpsOffset")>>,
             <<"gpsOffset", Obj(<< <<"x", Num(2)>> >>)>> >>),
      Obj(<< <<"command", Str("gGetColorCorrection")>>,
             <<"colorCorrection", Obj(<< <<"h", Num(1)>> >>)>> >>),
      Obj(<< <<"command", Str("gGetGpsOffset")>> >>),
      Named("Position", << <<"x", Num(7)>> >>) }

(* handleMessage, data-service.ts:58: the event emitted for a payload, <<>>*)
(* for none                                                                *)
EmitFor(response) ==
    IF ~Truthy(response) THEN <<>>
    ELSE IF ObjGet(response, "command") = Str("gGetCameraOffset")
            /\ Truthy(ObjGet(response, "cameraOffset"))
    THEN <<"getCameraOffset", ObjGet(response, "cameraOffset")>>
    ELSE IF ObjGet(response, "command") = Str("gGetGpsOffset")
            /\ Truthy(ObjGet(response, "gpsOffset"))
    THEN <<"getGpsOffset", ObjGet(response, "gpsOffset")>>
    ELSE IF ObjGet(response, "command") = Str("gGetColorCorrection")
            /\ Truthy(ObjGet(response, "colorCorrection"))
    THEN <<"getColorCorrection", ObjGet(response, "colorCorrection")>>
    ELSE <<"message", response>>

handleMessage(value) == EmitFor(deserializeDataResponse(value))

\* the last event emitted, after a handler that emitted event or nothing
LastEmitted(event, before) == IF event = <<>> THEN before ELSE event

\* the constructor has run: its createSocketConnection has made the first
\* socket (data-service.ts:35-43)
InitService ==
    /\ PatchLoaded
    /\ NoMedia
    /\ pc = "constructor"
    /\ payload = Undef
    /\ normalized = Undef
    /\ result = Undef
    /\ target = Undef
    /\ merged = <<>>
    /\ recordName = Undef
    /\ envelope = Undef
    /\ sockets = <<"connecting">>
    /\ socket = 1
    /\ timer = 0
    /\ running = {}
    /\ command = Null
    /\ emitted = <<>>
    /\ sent = 0
    /\ from = 0

Quiet == UNCHANGED <<payload, normalized, result, target, merged, recordName,
                     envelope, patch, media>>

(* createSocketConnection, data-service.ts:109 *)
CreateSocketConnection ==
    /\ Len(sockets) < MaxSockets
    /\ pc' = "createSocketConnection"
    /\ sockets' = Append(IF SocketConnected THEN Disconnected(socket, sockets)
                         ELSE sockets,
                         "connecting")
    /\ socket' = Len(sockets) + 1
    /\ timer' = IF SocketConnected THEN stopPolling(timer, running)[1] ELSE timer
    /\ running' = IF SocketConnected THEN stopPolling(timer, running)[2]
                  ELSE running
    /\ emitted' = IF SocketConnected THEN <<"socketConnectionClosed">>
                  ELSE emitted
    /\ from' = IF SocketConnected THEN socket ELSE from
    /\ UNCHANGED <<command, sent>>
    /\ Quiet

(* start, data-service.ts:143 *)
Start ==
    /\ pc' = "start"
    /\ timer' = startPolling(timer, running)[1]
    /\ running' = startPolling(timer, running)[2]
    /\ UNCHANGED <<sockets, socket, command, emitted, sent, from>>
    /\ Quiet

(* stop, data-service.ts:154 *)
Stop ==
    /\ pc' = "stop"
    /\ timer' = stopPolling(timer, running)[1]
    /\ running' = stopPolling(timer, running)[2]
    /\ sockets' = IF socket # 0 THEN Disconnected(socket, sockets) ELSE sockets
    /\ emitted' = IF SocketConnected THEN <<"socketConnectionClosed">>
                  ELSE emitted
    /\ from' = IF SocketConnected THEN socket ELSE from
    /\ UNCHANGED <<socket, command, sent>>
    /\ Quiet

(* restart, data-service.ts:168: stop, then createSocketConnection, which  *)
(* finds the socket closed                                                 *)
Restart ==
    /\ Len(sockets) < MaxSockets
    /\ pc' = "restart"
    /\ timer' = stopPolling(timer, running)[1]
    /\ running' = stopPolling(timer, running)[2]
    /\ sockets' = Append(IF socket # 0 THEN Disconnected(socket, sockets)
                         ELSE sockets,
                         "connecting")
    /\ socket' = Len(sockets) + 1
    /\ emitted' = IF SocketConnected THEN <<"socketConnectionClosed">>
                  ELSE emitted
    /\ from' = IF SocketConnected THEN socket ELSE from
    /\ UNCHANGED <<command, sent>>
    /\ Quiet

\* a view sets the command to poll with
SetCommand ==
    /\ command = Null
    /\ pc' = "command"
    /\ command' = Str("gDepth")
    /\ UNCHANGED <<sockets, socket, timer, running, emitted, sent, from>>
    /\ Quiet

\* the connect event of a socket (data-service.ts:119-122)
Connect ==
    \E s \in 1..Len(sockets) :
        /\ sockets[s] = "connecting"
        /\ pc' = "connect"
        /\ sockets' = [sockets EXCEPT ![s] = "connected"]
        /\ emitted' = <<"socketConnected">>
        /\ timer' = startPolling(timer, running)[1]
        /\ running' = startPolling(timer, running)[2]
        /\ from' = s
        /\ UNCHANGED <<socket, command, sent>>
        /\ Quiet

\* the disconnect event of a socket that lost its connection, and tries
\* again or not (data-service.ts:126-129)
Disconnect ==
    \E s \in 1..Len(sockets), after \in {"connecting", "closed"} :
        /\ sockets[s] = "connected"
        /\ pc' = "disconnect"
        /\ sockets' = [sockets EXCEPT ![s] = after]
        /\ timer' = stopPolling(timer, running)[1]
        /\ running' = stopPolling(timer, running)[2]
        /\ emitted' = <<"socketConnectionClosed">>
        /\ from' = s
        /\ UNCHANGED <<socket, command, sent>>
        /\ Quiet

\* the message event of a socket (data-service.ts:124)
Message ==
    \E s \in 1..Len(sockets), value \in MessagePayloads :
        /\ sockets[s] = "connected"
        /\ pc' = "message"
        /\ emitted' = LastEmitted(handleMessage(value), emitted)
        /\ from' = s
        /\ UNCHANGED <<sockets, socket, timer, running, command, sent>>
        /\ Quiet

\* a running interval fires (data-service.ts:92-96, send: 182-190)
Tick ==
    \E id \in running :
        /\ pc' = "tick"
        /\ sent' = IF command # Null /\ SocketConnected THEN socket ELSE sent
        /\ UNCHANGED <<sockets, socket, timer, running, command, emitted, from>>
        /\ Quiet

NextService ==
    \/ CreateSocketConnection \/ Start \/ Stop \/ Restart \/ SetCommand
    \/ Connect \/ Disconnect \/ Message \/ Tick

SpecService == InitService /\ [][NextService]_vars

---------------------------------------------------------------------------
(* C27: the polling interval.                                              *)

AtMostOneTimer == Cardinality(running) <= 1

\* stop() and the disconnect event of the current socket leave no interval
StoppedAfter ==
    (pc' = "stop" \/ (pc' = "disconnect" /\ from' = socket)) => running' = {}

PollingBegins == running = {} /\ running' # {}

\* the statement as it stands: only a connect event sets polling going
C27_Original ==
    /\ []AtMostOneTimer
    /\ [][StoppedAfter]_vars
    /\ [][PollingBegins => pc' = "connect"]_vars

\* C27: at most one polling interval is running after any sequence of
\* connect and disconnect events and of start, stop, restart and
\* createSocketConnection calls; none is running after stop() or after the
\* disconnect event of the current socket, until the next connect event or
\* the next call of start().
C27_PollingTimer ==
    /\ []AtMostOneTimer
    /\ [][StoppedAfter]_vars
    /\ [][PollingBegins => pc' \in {"connect", "start"}]_vars

\* polling has been set going twice, by a connect event and by start(), and
\* one interval is running
C27_Witness ==
    /\ pc = "start"
    /\ from # 0
    /\ sockets[from] = "connected"
    /\ timer = 2
    /\ running = {2}

---------------------------------------------------------------------------
(* C28: the sockets of a DataService.                                      *)

Live(s) == sockets[s] \in {"connecting", "connected"}

OnlyCurrentLive == \A s \in 1..Len(sockets) : Live(s) => s = socket

\* the handler of a connect, disconnect or message event has run
HandlerRan == pc' \in {"connect", "disconnect", "message"}

\* C28: after any sequence of createSocketConnection, stop and restart
\* calls and of connect and disconnect events, at most one socket of the
\* service is connecting or connected, the one in the socket field; a socket
\* that has been superseded does not start polling, stop polling or deliver
\* a message any more.
C28_OneLiveSocket ==
    /\ []OnlyCurrentLive
    /\ [][HandlerRan => from' = socket']_vars

\* restart(), and createSocketConnection() on a connected socket, close the
\* socket they supersede
C28_ClosedWhenSuperseded ==
    [][(Len(sockets') > Len(sockets) /\ (pc' = "restart" \/ SocketConnected))
          => sockets'[socket] = "closed"]_vars

\* a superseded socket has connected after its successor and set polling
\* going, and the interval has fired
C28_SupersededPolls ==
    ~(/\ Len(sockets) = 2 /\ socket = 2
      /\ sockets = <<"connected", "connected">>
      /\ from = 1
      /\ running # {}
      /\ pc = "tick")

---------------------------------------------------------------------------
(* SpecMedia: one run of the effect of useMediaSourceStream, from the      *)
(* creation of the media source on.  media is a record:                    *)
(*   ended, chunkQueue     the locals of these names                       *)
(*   sourceBuffer, reader  whether the local is set (not null)             *)
(*   readyState            mediaSource.readyState                          *)
(*   updating              "none", or the update of the source buffer      *)
(*                         that is going on: "append" or "remove"          *)
(*   updateend, sourceended  the event is due                              *)
(*   stream                where startStreaming is: "idle" (not called),   *)
(*                         "fetching", "reading" (awaiting a read),        *)
(*                         "settling" (awaiting what closeStream has       *)
(*                         aborted), "settled", "finished"                 *)
(*   read                  the number of chunks read; a chunk is its       *)
(*                         number in the order of reading                  *)
(*   attempts              the calls of appendBuffer so far: the chunk,    *)
(*                         the outcome, and updating at the call           *)
(*   teardown              how often closeStream has aborted the fetch,    *)
(*                         cancelled the reader, ended the stream and      *)
(*                         revoked the object URL                          *)
(*   mounted               the cleanup of the effect has not run           *)

MaxChunks == 3
MaxRejects == 2

Rejections(m) ==
    Cardinality({i \in 1..Len(m.attempts) : m.attempts[i][2] = "quota"})

\* what appendBuffer may do: take the chunk, or raise QuotaExceededError or
\* another error; a source buffer removed from its media source raises
\* InvalidStateError
Outcomes(m) ==
    IF m.readyState = "closed" THEN {"error"}
    ELSE IF Rejections(m) < MaxRejects THEN {"ok", "quota", "error"}
    ELSE {"ok", "error"}

\* sourceBuffer.remove(): an update begins, and an ended media source is
\* open again
Removing(m) ==
    [m EXCEPT !.updating = "remove", !.updateend = TRUE, !.readyState = "open"]

(* trimBuffer, use-media-source.ts:41; removes says whether the buffered   *)
(* range is such that a part of it is removed                              *)
trimBuffer(m, removes) ==
    IF ~m.sourceBuffer \/ m.updating # "none" \/ ~removes THEN m
    ELSE Removing(m)

\* the appendBuffer call of flushQueue and its catch clause
Attempt(m, chunk, outcome, removes) ==
    CASE outcome = "ok" ->
            [m EXCEPT !.chunkQueue = Tail(@),
                      !.updating = "append",
                      !.updateend = TRUE,
                      !.readyState = "open",
                      !.attempts = Append(@, <<chunk, "ok", m.updating>>)]
      [] outcome = "quota" ->
            trimBuffer([m EXCEPT !.attempts =
                                     Append(@, <<chunk, "quota", m.updating>>)],
                       removes)
      [] OTHER ->
            [m EXCEPT !.chunkQueue = <<>>,
                      !.attempts = Append(@, <<chunk, "error", m.updating>>)]

\* flushQueue putting a chunk that met QuotaExceededError at the end
flushQueueRequeueLast(m, outcome, removes) ==
    IF ~m.sourceBuffer \/ m.updating # "none" \/ m.chunkQueue = <<>> THEN m
    ELSE IF outcome = "quota"
    THEN [m EXCEPT !.chunkQueue = Append(Tail(@), Head(@)),
                   !.attempts = Append(@, <<Head(m.chunkQueue), "quota", m.updating>>)]
    ELSE Attempt(m, Head(m.chunkQueue), outcome, removes)

(* flushQueue, use-media-source.ts:60 *)
flushQueue(m, outcome, removes) ==
    IF ~m.sourceBuffer \/ m.updating # "none" \/ m.chunkQueue = <<>> THEN m
    ELSE Attempt(m, Head(m.chunkQueue), outcome, removes)

\* mediaSource.endOfStream() inside try: it raises while a source buffer is
\* updating, and otherwise ends the media source
endOfStream(m) ==
    IF m.readyState # "open" \/ m.updating # "none" THEN m
    ELSE [m EXCEPT !.readyState = "ended", !.sourceended = TRUE]

Bit(b) == IF b THEN 1 ELSE 0

\* the body of closeStream after the test of ended; aborting the fetch makes
\* the await of startStreaming, if there is one, end with an error
Teardown(m) ==
    endOfStream(
        [m EXCEPT !.ended = TRUE,
                  !.stream = IF @ \in {"fetching", "reading"} THEN "settling"
                             ELSE @,
                  !.reader = FALSE,
                  !.chunkQueue = <<>>,
                  !.updating = "none",
                  !.teardown = [abort |-> @.abort + 1,
                                cancel |-> @.cancel + Bit(m.reader),
                                endOfStream |-> @.endOfStream
                                                  + Bit(m.readyState = "open"),
                                revoke |-> @.revoke + 1]])

\* closeStream without the test of ended
closeStreamAgain(m) == Teardown(m)

(* closeStream, use-media-source.ts:83 *)
closeStream(m) == IF m.ended THEN m ELSE Teardown(m)

\* the finally clause of startStreaming
Finally(m) ==
    IF ~m.ended /\ m.readyState = "open" THEN endOfStream(m) ELSE m

\* the effect has run as far as its return (use-media-source.ts:31-39, 193)
InitMedia ==
    /\ PatchLoaded
    /\ NoService
    /\ pc = "effect"
    /\ payload = Undef
    /\ normalized = Undef
    /\ result = Undef
    /\ target = Undef
    /\ merged = <<>>
    /\ recordName = Undef
    /\ envelope = Undef
    /\ media = [ended |-> FALSE, chunkQueue |-> <<>>, sourceBuffer |-> FALSE,
                reader |-> FALSE, readyState |-> "closed", updating |-> "none",
                updateend |-> FALSE, sourceended |-> FALSE, stream |-> "idle",
                read |-> 0, attempts |-> <<>>,
                teardown |-> [abort |-> 0, cancel |-> 0, endOfStream |-> 0,
                              revoke |-> 0],
                mounted |-> TRUE]

Handled(name, m) ==
    /\ pc' = name
    /\ media' = m
    /\ UNCHANGED <<payload, normalized, result, target, merged, recordName,
                   envelope, patch, service>>

\* the sourceopen event of the media source attached to the video
\* (use-media-source.ts:159-183)
SourceOpen ==
    /\ media.readyState = "closed"
    /\ media.mounted
    /\ media.stream = "idle"
    /\ ~media.sourceBuffer
    /\ \E supported \in BOOLEAN :
          Handled("sourceopen",
                  IF media.ended THEN [media EXCEPT !.readyState = "open"]
                  ELSE IF ~supported
                  THEN closeStream([media EXCEPT !.readyState = "open"])
                  ELSE [media EXCEPT !.readyState = "open",
                                     !.sourceBuffer = TRUE,
                                     !.stream = "fetching"])

\* the fetch of startStreaming is answered (use-media-source.ts:121-132,
\* 144-156): with a body to read, or not
FetchAnswered ==
    /\ media.stream = "fetching"
    /\ \E body \in BOOLEAN :
          Handled("fetch",
                  IF body THEN [media EXCEPT !.reader = TRUE, !.stream = "reading"]
                  ELSE Finally([media EXCEPT !.stream = "finished"]))

\* a read gives a chunk (use-media-source.ts:132-142), with bytes or empty
ReadChunk ==
    /\ media.stream = "reading"
    /\ media.read < MaxChunks
    /\ \E empty \in BOOLEAN, outcome \in Outcomes(media), removes \in BOOLEAN :
          Handled("read",
                  IF empty THEN [media EXCEPT !.read = @ + 1]
                  ELSE flushQueue([media EXCEPT !.read = @ + 1,
                                                !.chunkQueue =
                                                    Append(@, media.read + 1)],
                                  outcome, removes))

\* a read reports the end of the stream, or fails
\* (use-media-source.ts:133-135, 144-156)
StreamEnds ==
    /\ media.stream = "reading"
    /\ Handled("done", Finally([media EXCEPT !.stream = "finished"]))

\* the await that closeStream has aborted ends: the loop is left, and catch
\* and finally find ended set (use-media-source.ts:144-156)
Settle ==
    /\ media.stream = "settling"
    /\ Handled("aborted", Finally([media EXCEPT !.stream = "settled"]))

\* the updateend event of the source buffer (use-media-source.ts:173-176);
\* the buffered ranges of a source buffer removed from its media source
\* cannot be read, and the handler ends there
UpdateEnd ==
    /\ media.updateend
    /\ \E outcome \in Outcomes(media), trims \in BOOLEAN, removes \in BOOLEAN :
          Handled("updateend",
                  IF media.readyState = "closed"
                  THEN [media EXCEPT !.updateend = FALSE, !.updating = "none"]
                  ELSE flushQueue(
                           trimBuffer([media EXCEPT !.updateend = FALSE,
                                                    !.updating = "none"],
                                      trims),
                           outcome, removes))

\* the error event of the source buffer (use-media-source.ts:177-180)
BufferError ==
    /\ media.sourceBuffer
    /\ media.readyState # "closed"
    /\ Handled("error", closeStream(media))

\* the sourceended event (use-media-source.ts:185-187)
SourceEnded ==
    /\ media.sourceended
    /\ Handled("sourceended", closeStream([media EXCEPT !.sourceended = FALSE]))

\* the media source is detached from the video: the sourceclose event
\* (use-media-source.ts:189-191)
SourceClose ==
    /\ media.readyState # "closed"
    /\ Handled("sourceclose",
               closeStream([media EXCEPT !.readyState = "closed",
                                         !.sourceended = FALSE]))

\* the cleanup of the effect (use-media-source.ts:193-197)
Unmount ==
    /\ media.mounted
    /\ Handled("unmount", [closeStream(media) EXCEPT !.mounted = FALSE])

NextMedia ==
    \/ SourceOpen \/ FetchAnswered \/ ReadChunk \/ StreamEnds \/ Settle
    \/ UpdateEnd \/ BufferError \/ SourceEnded \/ SourceClose \/ Unmount

SpecMedia == InitMedia /\ [][NextMedia]_vars

---------------------------------------------------------------------------
(* C29: the order of the chunks.                                           *)

Attempts == media.attempts

\* no call of appendBuffer was made while the source buffer was updating
NeverWhileUpdating ==
    \A i \in 1..Len(Attempts) : Attempts[i][3] = "none"

\* a chunk that met QuotaExceededError is the chunk of the next call, and
\* until that call, or until the queue is emptied by closeStream, it is the
\* head of the queue
RejectedIsNext ==
    \A i \in 1..Len(Attempts) :
        Attempts[i][2] = "quota" =>
            IF i < Len(Attempts) THEN Attempts[i + 1][1] = Attempts[i][1]
            ELSE media.ended \/ (/\ media.chunkQueue # <<>>
                                 /\ Head(media.chunkQueue) = Attempts[i][1])

\* the chunks are tried in the order of reading, and the queue holds, in
\* this order, chunks that the source buffer has not taken
InReadingOrder ==
    /\ \A i, j \in 1..Len(Attempts) : i < j => Attempts[i][1] <= Attempts[j][1]
    /\ \A i, j \in 1..Len(media.chunkQueue) :
          i < j => media.chunkQueue[i] < media.chunkQueue[j]
    /\ \A i \in 1..Len(Attempts), j \in 1..Len(media.chunkQueue) :
          /\ Attempts[i][1] <= media.chunkQueue[j]
          /\ Attempts[i][2] = "ok" => Attempts[i][1] < media.chunkQueue[j]

\* C29: the chunks are handed to the source buffer one at a time and in the
\* order they were read: appendBuffer is not called while the source buffer
\* is updating, a chunk that met QuotaExceededError is put back at the head
\* of the queue and is the next chunk tried, and no chunk is appended before
\* an earlier one that is still queued.
C29_InOrder == NeverWhileUpdating /\ RejectedIsNext /\ InReadingOrder

\* chunk 1 was taken, chunk 2 met QuotaExceededError and was taken at the
\* next call, and chunk 3 waits in the queue
C29_Witness ==
    /\ Len(Attempts) = 3
    /\ Attempts[1] = <<1, "ok", "none">>
    /\ Attempts[2] = <<2, "quota", "none">>
    /\ Attempts[3] = <<2, "ok", "none">>
    /\ media.chunkQueue = <<3>>

---------------------------------------------------------------------------
(* C30: closeStream.                                                       *)

TornDownOnce ==
    /\ media.teardown.abort <= 1
    /\ media.teardown.cancel <= 1
    /\ media.teardown.endOfStream <= 1
    /\ media.teardown.revoke <= 1
    /\ media.ended <=> media.teardown.abort = 1

\* C30: closeStream is idempotent and final: whichever of the cleanup of
\* the effect, sourceended, sourceclose, an error of the source buffer and
\* an unsupported type calls it, and however often, the fetch is aborted,
\* the reader cancelled, the stream ended and the object URL revoked at most
\* once; after that the chunk queue stays empty and appendBuffer is not
\* called again, also when the read that was awaited ends afterwards.
C30_ClosedOnce ==
    /\ [](TornDownOnce /\ (media.ended => media.chunkQueue = <<>>))
    /\ [][media.ended =>
             /\ media'.ended
             /\ media'.teardown = media.teardown
             /\ media'.attempts = media.attempts]_vars

\* the stream was closed by an error of the source buffer while a read was
\* awaited; the read has ended, sourceended has come and the effect has
\* been cleaned up: one teardown, and no call of appendBuffer after it
C30_Witness ==
    /\ media.ended
    /\ media.stream = "settled"
    /\ ~media.mounted
    /\ ~media.sourceended
    /\ media.teardown = [abort |-> 1, cancel |-> 1, endOfStream |-> 1, revoke |-> 1]
    /\ Len(media.attempts) = 2

============================================================================
